---- MODULE Spec2Model ----
(***************************************************************************)
(* Lumen-BE: the REST router of the activity-management backend.           *)
(*                                                                         *)
(* The repository holds two generations of the router that carry the       *)
(* registration-admission logic: the Swagger-documented router             *)
(* (src/server1.js) and the router with the in-memory OTP store            *)
(* (src/unnamed/part_001).  The variable `build` says which of them is     *)
(* deployed; it is chosen at start-up and never changes.                   *)
(*                                                                         *)
(* Every handler is an async function: between two `await`s it runs        *)
(* without interruption, and at an `await` on the database other requests  *)
(* run.  A handler is therefore one action per database round trip; its    *)
(* position and locals between two round trips are a record in `inflight`. *)
(***************************************************************************)
EXTENDS Integers, Sequences, FiniteSets, Bags, TLC

\* ------------------------------------------------------------------ bounds
MaxEvents == 2          \* event ids 1..MaxEvents
MaxRegistrants == 2     \* registrant ids 1..MaxRegistrants, per kind
MaxCap == 2             \* capacity limits a request body may carry: 0..MaxCap
MaxInFlight == 2        \* handlers suspended at an await at the same time
MaxDatetime == 1        \* distinct scheduled datetimes
MaxUsers == 3           \* user ids 1..MaxUsers
MaxEventRegistrants == 1 \* registrants per kind in the event-management specification
MaxPhones == 1          \* phone numbers 1..MaxPhones
MaxNames == 2           \* full names 1..MaxNames
MaxBirthdates == 1      \* birthdates 1..MaxBirthdates
MaxIssued == 2          \* one-time codes issued in a run
MaxTicks == 1           \* steps of the clock in a run
TickMs == 400000        \* milliseconds the clock advances in one step
MaxEmails == 2          \* email addresses 1..MaxEmails
MaxPasswords == 2       \* passwords 1..MaxPasswords

\* ------------------------------------------------------- program constants
DefaultMaxParticipants == 10
DefaultMaxVolunteers == 5
DemoOtp == 123456               \* const otp = '123456'
OtpTtlMs == 5 * 60 * 1000       \* expiresAt: Date.now() + 5 * 60 * 1000

Builds == {"server1", "part_001"}
EventIDs == 1..MaxEvents
Registrants == 1..MaxRegistrants
CapInputs == 0..MaxCap
Datetimes == 1..MaxDatetime
UserIDs == 1..MaxUsers
Pairs == Registrants \X EventIDs
EventRegistrants == 1..MaxEventRegistrants
Phones == 1..MaxPhones
Names == 1..MaxNames
Birthdates == 1..MaxBirthdates
Serials == 1..MaxIssued
Emails == 1..MaxEmails
Passwords == 1..MaxPasswords
Roles == {"staff", "volunteer", "participant"}
\* a request field is a value or missing (0, falsy)
PhoneInputs == 0..MaxPhones
EmailInputs == 0..MaxEmails
PasswordInputs == 0..MaxPasswords
OtpInputs == {0, DemoOtp, DemoOtp + 1}

VARIABLES
    build,              \* which router is deployed
    User,               \* table User: userID -> row
    Event,              \* table Event: eventID -> row
    nextEventID,        \* AUTO_INCREMENT of Event.eventID
    ParticipantEvent,   \* table ParticipantEvent: <<participantID, eventID>> -> number of rows
    VolunteerEvent,     \* table VolunteerEvent: <<volunteerID, eventID>> -> number of rows
    inflight,           \* bag of handlers suspended at an await
    sent,               \* the response sent by the step just taken (NoResp: none)
    Participant,        \* table Participant: userID -> row
    nextUserID,         \* AUTO_INCREMENT of User.userID
    otpStore,           \* the router's Map otpStore: phone -> entry (part_001)
    now,                \* Date.now(), in milliseconds
    issued,             \* history: phone -> serial of the code last issued for it (0: none)
    nextSerial,         \* history: serial of the next code issued
    logins,             \* history: serial -> tokens issued on that code, counted up to 2
    Staff,              \* table Staff: userID -> row
    Volunteers,         \* table Volunteers: userID -> row
    leaked              \* pooled connections checked out and never released

\* the variables of the account and one-time-code flows, which the registration
\* handlers leave alone
accountVars == <<Participant, nextUserID, otpStore, now, issued, nextSerial, logins,
                 Staff, Volunteers>>
otpVars == <<accountVars, leaked>>
\* the tables the one-time-code handlers leave alone
regVars == <<Event, nextEventID, ParticipantEvent, VolunteerEvent, Staff, Volunteers, leaked>>
\* the variables the account handlers leave alone
eventVars == <<Event, nextEventID, ParticipantEvent, VolunteerEvent,
               otpStore, now, issued, nextSerial, logins, leaked>>

vars == <<build, User, Event, nextEventID, ParticipantEvent, VolunteerEvent, inflight, sent,
          Participant, nextUserID, otpStore, now, issued, nextSerial, logins,
          Staff, Volunteers, leaked>>

\* ---------------------------------------------------------------- helpers
RECURSIVE SumOver(_, _)
SumOver(S, f) ==
    IF S = {} THEN 0
    ELSE LET x == CHOOSE y \in S : TRUE IN f[x] + SumOver(S \ {x}, f)

NoToken == [userID |-> 0, role |-> "none"]
NoResp == [op |-> "none", status |-> 0, error |-> "", token |-> NoToken]

\* res.status(status).json({success: false, error}) / res.status(status).json({success: true, ...})
Resp(op, status, error) ==
    [op |-> op, status |-> status, error |-> error, token |-> NoToken]

EmptyJoin == [p \in Pairs |-> 0]

\* ------------------------------------------------------------ persistence
\* COUNT(pe.participantID) ... WHERE e.eventID = ? GROUP BY e.eventID
CountRows(T, e) == SumOver({p \in Pairs : p[2] = e}, T)

\* The schema (schema.sql) is not among the sources.  The data model gives the
\* join tables a uniqueness constraint on (registrant, event) and makes a join
\* row a child of its event: an INSERT that would duplicate the pair, or that
\* names a missing event, is refused by the store (ER_DUP_ENTRY,
\* ER_NO_REFERENCED_ROW) and the query throws.
InsertJoinRowNoUniqueKey(Ev, T, r, e) ==
    IF e \in DOMAIN Ev
    THEN [ok |-> TRUE, table |-> [T EXCEPT ![<<r, e>>] = @ + 1]]
    ELSE [ok |-> FALSE, table |-> T]

InsertJoinRow(Ev, T, r, e) ==
    IF e \in DOMAIN Ev /\ T[<<r, e>>] = 0
    THEN [ok |-> TRUE, table |-> [T EXCEPT ![<<r, e>>] = 1]]
    ELSE [ok |-> FALSE, table |-> T]

\* The role tables and the join tables reference User by userID (foreign
\* key): a row whose userID names no User row is refused.
OwnerMissing(userID) == userID \notin DOMAIN User

InsertRegistrationSwapped(Ev, T, r, e) ==
    IF OwnerMissing(r) THEN [ok |-> FALSE, table |-> T] ELSE InsertJoinRow(Ev, T, e, r)

\* INSERT INTO ParticipantEvent / VolunteerEvent (registrant, eventID)
\* VALUES (?, ?), [registrant, eventID]
InsertRegistration(Ev, T, r, e) ==
    IF OwnerMissing(r) THEN [ok |-> FALSE, table |-> T] ELSE InsertJoinRow(Ev, T, r, e)

DeleteJoinRowsOtherColumn(T, r, e) ==
    [p \in DOMAIN T |-> IF p[2] = e /\ p[1] # r THEN 0 ELSE T[p]]

DeleteJoinRowsNoMatch(T, r, e) == T

\* DELETE FROM ParticipantEvent WHERE participantID = ? AND eventID = ?
DeleteJoinRows(T, r, e) ==
    IF <<r, e>> \in DOMAIN T THEN [T EXCEPT ![<<r, e>>] = 0] ELSE T

\* ------------------------------------------- POST /participant-events checks
ParticipantCapacityCheckOffByOne(Ev, T, e) ==
    IF e \notin DOMAIN Ev THEN "Event not found"
    ELSE IF CountRows(T, e) > Ev[e].max_participants THEN "Event is full"
    ELSE "pass"

\* The capacity query and the two conditionals after it.
ParticipantCapacityCheck(Ev, T, e) ==
    LET event == IF e \in DOMAIN Ev
                 THEN <<[max_participants |-> Ev[e].max_participants,
                         current_count |-> CountRows(T, e)]>>
                 ELSE <<>>
    IN  IF Len(event) = 0 THEN "Event not found"
        ELSE IF event[1].current_count >= event[1].max_participants THEN "Event is full"
        ELSE "pass"

ParticipantDuplicateCheckSkipped(T, r, e) == "pass"

\* SELECT * FROM ParticipantEvent WHERE participantID = ? AND eventID = ?; existing.length > 0
ParticipantDuplicateCheck(T, r, e) ==
    LET existing == IF <<r, e>> \in DOMAIN T THEN T[<<r, e>>] ELSE 0
    IN  IF existing > 0 THEN "Already registered" ELSE "pass"

\* -------------------------------------------- POST /volunteer-events checks
VolunteerCapacityCheckSkipped(b, Ev, T, e) ==
    IF b = "server1" \/ e \in DOMAIN Ev THEN "pass" ELSE "Event not found"

\* part_001 runs the same two checks against VolunteerEvent / max_volunteers;
\* server1 inserts without any check.
VolunteerCapacityCheck(b, Ev, T, e) ==
    IF b = "server1" THEN "pass"
    ELSE
    LET event == IF e \in DOMAIN Ev
                 THEN <<[max_volunteers |-> Ev[e].max_volunteers,
                         current_count |-> CountRows(T, e)]>>
                 ELSE <<>>
    IN  IF Len(event) = 0 THEN "Event not found"
        ELSE IF event[1].current_count >= event[1].max_volunteers THEN "Event is full"
        ELSE "pass"

VolunteerDuplicateCheck(b, T, r, e) ==
    IF b = "server1" THEN "pass"
    ELSE
    LET existing == IF <<r, e>> \in DOMAIN T THEN T[<<r, e>>] ELSE 0
    IN  IF existing > 0 THEN "Already registered" ELSE "pass"

\* HTTP status of a rejection
RejectStatus(error) == IF error = "Event not found" THEN 404 ELSE 400

\* ------------------------------------------------------ in-flight handlers
\* a suspended handler: its route, the await it is at, and its locals
Handler(op, id, e, pc) ==
    [op |-> op, pc |-> pc, id |-> id, eventID |-> e,
     phone |-> 0, fullName |-> 0, birthdate |-> 0, serial |-> 0,
     email |-> 0, password |-> 0, role |-> "none",
     max_participants |-> 0, max_volunteers |-> 0, datetime |-> 0]
Suspend(h) == inflight (+) SetToBag({h})
Resume(h) == inflight (-) SetToBag({h})
Suspended == BagToSet(inflight)
CanAccept(limit) == BagCardinality(inflight) < limit

PostParticipantEvents == "POST /participant-events"
PostVolunteerEvents == "POST /volunteer-events"
DeleteParticipantEvents == "DELETE /participant-events"
DeleteVolunteerEvents == "DELETE /volunteer-events"

\* ------------------------------------------------ POST /participant-events
\* Entry to the handler up to the capacity decision.
ParticipantEventsBegin(limit, r, e) ==
    /\ CanAccept(limit)
    /\ LET c == ParticipantCapacityCheck(Event, ParticipantEvent, e)
       IN  IF c # "pass"
           THEN /\ sent' = Resp(PostParticipantEvents, RejectStatus(c), c)
                /\ UNCHANGED inflight
           ELSE /\ inflight' = Suspend(Handler(PostParticipantEvents, r, e, "existing"))
                /\ sent' = NoResp
    /\ UNCHANGED <<build, User, Event, nextEventID, ParticipantEvent, VolunteerEvent>>
    /\ UNCHANGED otpVars

\* The duplicate query and its conditional.
ParticipantEventsExisting(h) ==
    /\ h \in Suspended /\ h.op = PostParticipantEvents /\ h.pc = "existing"
    /\ LET c == ParticipantDuplicateCheck(ParticipantEvent, h.id, h.eventID)
       IN  IF c # "pass"
           THEN /\ sent' = Resp(h.op, RejectStatus(c), c)
                /\ inflight' = Resume(h)
           ELSE /\ inflight' = Resume(h) (+) SetToBag({[h EXCEPT !.pc = "insert"]})
                /\ sent' = NoResp
    /\ UNCHANGED <<build, User, Event, nextEventID, ParticipantEvent, VolunteerEvent>>
    /\ UNCHANGED otpVars

\* The INSERT, then 201; a throwing query lands in catch: 500.
ParticipantEventsInsertRow(h) ==
    /\ h \in Suspended /\ h.op = PostParticipantEvents /\ h.pc = "insert"
    /\ LET ins == InsertRegistration(Event, ParticipantEvent, h.id, h.eventID)
       IN  /\ ParticipantEvent' = ins.table
           /\ sent' = IF ins.ok THEN Resp(h.op, 201, "")
                      ELSE Resp(h.op, 500, "StorageFailure")
    /\ inflight' = Resume(h)
    /\ UNCHANGED <<build, User, Event, nextEventID, VolunteerEvent>>

\* The same step where the connection pool is left out of account.
ParticipantEventsInsert(h) ==
    /\ ParticipantEventsInsertRow(h)
    /\ UNCHANGED otpVars

\* --------------------------------------------------------- connection pool
\* mysql.createPool({waitForConnections: true, connectionLimit: 10,
\* queueLimit: 0}): getConnection hands out one of connectionLimit
\* connections, and when all are checked out the caller waits, without a
\* limit of time, until one is released.
connectionLimit == 10

\* Every handler suspended at a query holds a connection; a handler that
\* waits in getConnection holds none.
CheckedOut ==
    leaked + SumOver(BagToSet(inflight),
                     [h \in BagToSet(inflight) |->
                         IF h.pc = "getConnection" THEN 0 ELSE CopiesIn(h, inflight)])
PoolFree == CheckedOut < connectionLimit
Waiting == \E h \in Suspended : h.pc = "getConnection"

\* POST /participant-events with the pool in account: pool.getConnection()
\* and, when a connection is at hand, the first query.  One request at a
\* time is followed while it waits for a connection.
PooledParticipantEventsBegin(limit, r, e) ==
    IF PoolFree /\ ~Waiting
    THEN ParticipantEventsBegin(limit, r, e)
    ELSE /\ CanAccept(limit)
         /\ ~Waiting
         /\ inflight' = Suspend(Handler(PostParticipantEvents, r, e, "getConnection"))
         /\ sent' = NoResp
         /\ UNCHANGED <<build, User, Event, nextEventID, ParticipantEvent, VolunteerEvent>>
         /\ UNCHANGED otpVars

\* A released connection goes to a waiting handler, which runs its first query.
PoolGetConnection(h) ==
    /\ h \in Suspended /\ h.op = PostParticipantEvents /\ h.pc = "getConnection"
    /\ PoolFree
    /\ LET c == ParticipantCapacityCheck(Event, ParticipantEvent, h.eventID)
       IN  IF c # "pass"
           THEN /\ sent' = Resp(PostParticipantEvents, RejectStatus(c), c)
                /\ inflight' = Resume(h)
           ELSE /\ inflight' = Resume(h) (+) SetToBag({[h EXCEPT !.pc = "existing"]})
                /\ sent' = NoResp
    /\ UNCHANGED <<build, User, Event, nextEventID, ParticipantEvent, VolunteerEvent>>
    /\ UNCHANGED otpVars

\* connection.release() is called on every path that answers from inside
\* the try block; catch answers 500 and releases nothing.
AfterResponse(l, status) == IF status = 500 THEN l + 1 ELSE l

\* The database answers the pending query of a handler with an error (a lock
\* wait timeout, a deadlock, a value the column refuses): the await throws
\* and the handler lands in catch.
PoolQueryFails(h) ==
    /\ h \in Suspended /\ h.op = PostParticipantEvents /\ h.pc \in {"existing", "insert"}
    /\ sent' = Resp(h.op, 500, "StorageFailure")
    /\ inflight' = Resume(h)
    /\ leaked' = AfterResponse(leaked, 500)
    /\ UNCHANGED <<build, User, Event, nextEventID, ParticipantEvent, VolunteerEvent>>
    /\ UNCHANGED accountVars

\* The INSERT with the pool in account.
PooledParticipantEventsInsert(h) ==
    /\ ParticipantEventsInsertRow(h)
    /\ leaked' = AfterResponse(leaked, sent'.status)
    /\ UNCHANGED accountVars

\* -------------------------------------------------- POST /volunteer-events
VolunteerEventsBegin(limit, r, e) ==
    /\ CanAccept(limit)
    /\ IF build = "server1"
       THEN \* one round trip: the INSERT
            LET ins == InsertRegistration(Event, VolunteerEvent, r, e)
            IN  /\ VolunteerEvent' = ins.table
                /\ sent' = IF ins.ok THEN Resp(PostVolunteerEvents, 201, "")
                           ELSE Resp(PostVolunteerEvents, 500, "StorageFailure")
                /\ UNCHANGED inflight
       ELSE LET c == VolunteerCapacityCheck(build, Event, VolunteerEvent, e)
            IN  /\ IF c # "pass"
                   THEN /\ sent' = Resp(PostVolunteerEvents, RejectStatus(c), c)
                        /\ UNCHANGED inflight
                   ELSE /\ inflight' = Suspend(Handler(PostVolunteerEvents, r, e, "existing"))
                        /\ sent' = NoResp
                /\ UNCHANGED VolunteerEvent
    /\ UNCHANGED <<build, User, Event, nextEventID, ParticipantEvent>>
    /\ UNCHANGED otpVars

VolunteerEventsExisting(h) ==
    /\ h \in Suspended /\ h.op = PostVolunteerEvents /\ h.pc = "existing"
    /\ LET c == VolunteerDuplicateCheck(build, VolunteerEvent, h.id, h.eventID)
       IN  IF c # "pass"
           THEN /\ sent' = Resp(h.op, RejectStatus(c), c)
                /\ inflight' = Resume(h)
           ELSE /\ inflight' = Resume(h) (+) SetToBag({[h EXCEPT !.pc = "insert"]})
                /\ sent' = NoResp
    /\ UNCHANGED <<build, User, Event, nextEventID, ParticipantEvent, VolunteerEvent>>
    /\ UNCHANGED otpVars

VolunteerEventsInsert(h) ==
    /\ h \in Suspended /\ h.op = PostVolunteerEvents /\ h.pc = "insert"
    /\ LET ins == InsertRegistration(Event, VolunteerEvent, h.id, h.eventID)
       IN  /\ VolunteerEvent' = ins.table
           /\ sent' = IF ins.ok THEN Resp(h.op, 201, "")
                      ELSE Resp(h.op, 500, "StorageFailure")
    /\ inflight' = Resume(h)
    /\ UNCHANGED <<build, User, Event, nextEventID, ParticipantEvent>>
    /\ UNCHANGED otpVars

\* ------------------- DELETE /participant-events/:participantID/:eventID
\* One round trip (the DELETE), then 200.
ParticipantEventsDelete(r, e) ==
    /\ ParticipantEvent' = DeleteJoinRows(ParticipantEvent, r, e)
    /\ sent' = Resp(DeleteParticipantEvents, 200, "")
    /\ UNCHANGED <<build, User, Event, nextEventID, VolunteerEvent, inflight>>
    /\ UNCHANGED otpVars

\* --------------------- DELETE /volunteer-events/:volunteerID/:eventID
VolunteerEventsDelete(r, e) ==
    /\ VolunteerEvent' = DeleteJoinRows(VolunteerEvent, r, e)
    /\ sent' = Resp(DeleteVolunteerEvents, 200, "")
    /\ UNCHANGED <<build, User, Event, nextEventID, ParticipantEvent, inflight>>
    /\ UNCHANGED otpVars


\* ------------------------------------------------------------ verifyToken
\* The Authorization header of a request: missing, a token jwt.verify
\* rejects, or a token it accepts, which decodes to the signed userID.
Missing == [kind |-> "missing", userID |-> 0]
Invalid == [kind |-> "invalid", userID |-> 0]
Bearer(u) == [kind |-> "valid", userID |-> u]
AuthInputs == {Missing, Invalid} \cup {Bearer(u) : u \in UserIDs}

verifyTokenUnverified(auth) ==
    IF auth.kind = "missing" THEN "Authorization header missing" ELSE "next"

verifyToken(auth) ==
    IF auth.kind = "missing" THEN "Authorization header missing"
    ELSE IF auth.kind = "invalid" THEN "Invalid or expired token"
    ELSE "next"

\* ------------------------------------------------------------ POST /events
PostEventsOp == "POST /events"
PutEventsOp == "PUT /events"

EventRow(mp, mv, dt, by) ==
    [max_participants |-> mp, max_volunteers |-> mv, datetime |-> dt, created_by |-> by]

\* JavaScript's x || d on a number: 0 is falsy
OrDefault(x, d) == IF x = 0 THEN d ELSE x

\* The row POST /events inserts for a request body
NewEventRow(b, mp, mv, dt, by) ==
    IF b = "part_001"
    THEN EventRow(OrDefault(mp, DefaultMaxParticipants), OrDefault(mv, DefaultMaxVolunteers), dt, by)
    ELSE EventRow(mp, mv, dt, by)

\* verifyToken, the role lookup and the INSERT.  The User table does not change
\* in the specifications that use this action, so the two round trips are one
\* step.
\* The handler run end to end: no other request between its SELECT and its
\* INSERT.
PostEvents(auth, mp, mv, dt) ==
    /\ LET v == verifyToken(auth)
           created_by == auth.userID
       IN  IF v # "next"
           THEN /\ sent' = Resp(PostEventsOp, 401, v)
                /\ UNCHANGED <<Event, nextEventID>>
           ELSE IF created_by \notin DOMAIN User
           THEN /\ sent' = Resp(PostEventsOp, 401, "User not found")
                /\ UNCHANGED <<Event, nextEventID>>
           ELSE IF User[created_by].role # "staff"
           THEN /\ sent' = Resp(PostEventsOp, 403, "Only staff members can create events")
                /\ UNCHANGED <<Event, nextEventID>>
           ELSE /\ nextEventID <= MaxEvents
                /\ Event' = Event @@ (nextEventID :> NewEventRow(build, mp, mv, dt, created_by))
                /\ nextEventID' = nextEventID + 1
                /\ sent' = Resp(PostEventsOp, 201, "")
    /\ UNCHANGED <<build, User, ParticipantEvent, VolunteerEvent, inflight>>
    /\ UNCHANGED otpVars

\* POST /events round trip by round trip, for requests that run while User
\* rows change.  First verifyToken and SELECT role FROM User.
PostEventsBegin(limit, auth, mp, mv, dt) ==
    /\ CanAccept(limit)
    /\ LET v == verifyToken(auth)
           created_by == auth.userID
       IN  IF v # "next"
           THEN /\ sent' = Resp(PostEventsOp, 401, v)
                /\ UNCHANGED inflight
           ELSE IF created_by \notin DOMAIN User
           THEN /\ sent' = Resp(PostEventsOp, 401, "User not found")
                /\ UNCHANGED inflight
           ELSE IF User[created_by].role # "staff"
           THEN /\ sent' = Resp(PostEventsOp, 403, "Only staff members can create events")
                /\ UNCHANGED inflight
           ELSE /\ inflight' = Suspend([Handler(PostEventsOp, created_by, 0, "insert") EXCEPT
                                           !.max_participants = mp, !.max_volunteers = mv,
                                           !.datetime = dt])
                /\ sent' = NoResp
    /\ UNCHANGED <<build, User, Event, nextEventID, ParticipantEvent, VolunteerEvent>>
    /\ UNCHANGED otpVars

\* Then INSERT INTO Event (..., created_by, ...) and 201.
PostEventsInsert(h) ==
    /\ h \in Suspended /\ h.op = PostEventsOp /\ h.pc = "insert"
    /\ nextEventID <= MaxEvents
    /\ Event' = Event @@ (nextEventID :> NewEventRow(build, h.max_participants,
                                                     h.max_volunteers, h.datetime, h.id))
    /\ nextEventID' = nextEventID + 1
    /\ sent' = Resp(PostEventsOp, 201, "")
    /\ inflight' = Resume(h)
    /\ UNCHANGED <<build, User, ParticipantEvent, VolunteerEvent>>
    /\ UNCHANGED otpVars

\* PUT /users/:userID of src/unnamed/part_001: no token is asked for; one
\* UPDATE User SET fullName, NRIC, role, image_url WHERE userID = ?, then 200.
PutUsersOp == "PUT /users"
PutUsers001(userID, fullName, role) ==
    /\ build = "part_001"
    /\ User' = [u \in DOMAIN User |->
                   IF u = userID THEN [User[u] EXCEPT !.fullName = fullName, !.role = role]
                   ELSE User[u]]
    /\ sent' = Resp(PutUsersOp, 200, "")
    /\ UNCHANGED <<build, Event, nextEventID, ParticipantEvent, VolunteerEvent, inflight>>
    /\ UNCHANGED <<Participant, nextUserID, otpStore, now, issued, nextSerial, logins,
                   Staff, Volunteers, leaked>>

\* ------------------------------------------------- PUT /events/:eventID
\* One UPDATE ... WHERE eventID = ?, then 200.
PutEvents(e, mp, mv, dt) ==
    /\ Event' = [x \in DOMAIN Event |->
                    IF x = e THEN EventRow(mp, mv, dt, Event[x].created_by) ELSE Event[x]]
    /\ sent' = Resp(PutEventsOp, 200, "")
    /\ UNCHANGED <<build, User, nextEventID, ParticipantEvent, VolunteerEvent, inflight>>
    /\ UNCHANGED otpVars


\* ===================================================== one-time-code login
CheckOrCreateOp == "POST /participant/check-or-create"
LoginOtpOp == "POST /login-otp"

UserRow(fullName, role, phone, birthdate) ==
    [fullName |-> fullName, role |-> role, phone |-> phone, birthdate |-> birthdate]
ParticipantRow(phoneNumber, birthdate) ==
    [phoneNumber |-> phoneNumber, birthdate |-> birthdate]

\* otpStore.get(phone) === undefined
NoOtp == [otp |-> 0, userId |-> 0, expiresAt |-> 0, serial |-> 0]
EmptyOtpStore == [p \in Phones |-> NoOtp]

RespTokenNoRole(op, userID, role) ==
    [op |-> op, status |-> 200, error |-> "", token |-> [userID |-> userID, role |-> "none"]]

\* res.json({success: true, token, data}) with the claims jwt.sign is given
RespToken(op, userID, role) ==
    [op |-> op, status |-> 200, error |-> "", token |-> [userID |-> userID, role |-> role]]

\* the first row of a result set (rows come in primary-key order)
FirstOf(S) == CHOOSE x \in S : \A y \in S : x <= y

\* the rows the lookup of check-or-create returns
ExistingAccounts(b, phone, birthdate) ==
    IF b = "part_001"
    THEN {u \in DOMAIN User : User[u].phone = phone /\ User[u].birthdate = birthdate}
    ELSE {u \in DOMAIN Participant \cap DOMAIN User : Participant[u].phoneNumber = phone}

\* the rows the lookup of login-otp returns
LoginAccounts(b, h) ==
    IF b = "part_001"
    THEN {u \in DOMAIN User : u = h.id}
    ELSE {u \in DOMAIN Participant \cap DOMAIN User : Participant[u].phoneNumber = h.phone}

\* The end of a successful check-or-create: part_001 stores the code for the
\* phone, then both answer 200 '... OTP sent'.  A code has been issued.
IssueOtp(h, userId) ==
    /\ nextSerial <= MaxIssued
    /\ otpStore' = IF build = "part_001"
                   THEN [otpStore EXCEPT ![h.phone] =
                            [otp |-> DemoOtp, userId |-> userId,
                             expiresAt |-> now + OtpTtlMs, serial |-> nextSerial]]
                   ELSE otpStore
    /\ issued' = [issued EXCEPT ![h.phone] = nextSerial]
    /\ nextSerial' = nextSerial + 1
    /\ logins' = logins
    /\ sent' = Resp(CheckOrCreateOp, 200, "")

\* --------------------------------------- POST /participant/check-or-create
\* Validation and the lookup of the account.
CheckOrCreateBegin(limit, phoneNumber, fullName, birthdate) ==
    /\ CanAccept(limit)
    /\ LET h == [Handler(CheckOrCreateOp, 0, 0, "insert_user") EXCEPT
                    !.phone = phoneNumber, !.fullName = fullName, !.birthdate = birthdate]
           users == ExistingAccounts(build, phoneNumber, birthdate)
       IN  IF phoneNumber = 0 \/ fullName = 0 \/ birthdate = 0
           THEN /\ sent' = Resp(CheckOrCreateOp, 400,
                                "Phone number, full name, and birthdate are required")
                /\ UNCHANGED <<inflight, otpStore, issued, nextSerial, logins>>
           ELSE IF users = {}
           THEN /\ inflight' = Suspend(h)
                /\ sent' = NoResp
                /\ UNCHANGED <<otpStore, issued, nextSerial, logins>>
           ELSE IF build = "part_001"
           THEN IF User[FirstOf(users)].fullName # fullName
                THEN /\ inflight' = Suspend([h EXCEPT !.pc = "update_name", !.id = FirstOf(users)])
                     /\ sent' = NoResp
                     /\ UNCHANGED <<otpStore, issued, nextSerial, logins>>
                ELSE /\ IssueOtp(h, FirstOf(users))
                     /\ UNCHANGED inflight
           ELSE IF \/ User[FirstOf(users)].fullName # fullName
                   \/ Participant[FirstOf(users)].birthdate # birthdate
                THEN /\ sent' = Resp(CheckOrCreateOp, 401, "Credentials do not match")
                     /\ UNCHANGED <<inflight, otpStore, issued, nextSerial, logins>>
                ELSE /\ IssueOtp(h, FirstOf(users))
                     /\ UNCHANGED inflight
    /\ UNCHANGED <<build, User, Participant, nextUserID, now>>
    /\ UNCHANGED regVars

\* INSERT INTO User; userResult.insertId
CheckOrCreateInsertUser(h) ==
    /\ h \in Suspended /\ h.op = CheckOrCreateOp /\ h.pc = "insert_user"
    /\ nextUserID <= MaxUsers
    /\ User' = User @@ (nextUserID :>
                  IF build = "part_001"
                  THEN UserRow(h.fullName, "participant", h.phone, h.birthdate)
                  ELSE UserRow(h.fullName, "participant", 0, 0))
    /\ nextUserID' = nextUserID + 1
    /\ inflight' = Resume(h) (+) SetToBag({[h EXCEPT !.pc = "insert_participant", !.id = nextUserID]})
    /\ sent' = NoResp
    /\ UNCHANGED <<build, Participant, otpStore, now, issued, nextSerial, logins>>
    /\ UNCHANGED regVars

\* INSERT INTO Participant.  part_001 inserts the userID alone.  In server1 the
\* row carries the phone number: the data model makes it unique, the migration
\* adds the column without a unique key, so an INSERT that repeats a phone
\* number is refused (the query throws) or accepted, as the database was built.
InsertParticipantOutcomes(b, P, h) ==
    IF b = "part_001"
    THEN {[ok |-> TRUE, table |-> P @@ (h.id :> ParticipantRow(0, 0))]}
    ELSE IF \E u \in DOMAIN P : P[u].phoneNumber = h.phone
    THEN {[ok |-> FALSE, table |-> P],
          [ok |-> TRUE, table |-> P @@ (h.id :> ParticipantRow(h.phone, h.birthdate))]}
    ELSE {[ok |-> TRUE, table |-> P @@ (h.id :> ParticipantRow(h.phone, h.birthdate))]}

\* INSERT INTO Participant, then the answer
CheckOrCreateInsertParticipant(h) ==
    /\ h \in Suspended /\ h.op = CheckOrCreateOp /\ h.pc = "insert_participant"
    /\ \E ins \in IF OwnerMissing(h.id)
                 THEN {[ok |-> FALSE, table |-> Participant]}
                 ELSE InsertParticipantOutcomes(build, Participant, h) :
           /\ Participant' = ins.table
           /\ IF ins.ok
              THEN IssueOtp(h, h.id)
              ELSE /\ sent' = Resp(CheckOrCreateOp, 500, "Failed to create account")
                   /\ UNCHANGED <<otpStore, issued, nextSerial, logins>>
    /\ inflight' = Resume(h)
    /\ UNCHANGED <<build, User, nextUserID, now>>
    /\ UNCHANGED regVars

\* UPDATE User SET fullName = ? WHERE userID = ?, then the answer (part_001)
CheckOrCreateUpdateName(h) ==
    /\ h \in Suspended /\ h.op = CheckOrCreateOp /\ h.pc = "update_name"
    /\ User' = [u \in DOMAIN User |->
                  IF u = h.id THEN [User[u] EXCEPT !.fullName = h.fullName] ELSE User[u]]
    /\ IssueOtp(h, h.id)
    /\ inflight' = Resume(h)
    /\ UNCHANGED <<build, Participant, nextUserID, now>>
    /\ UNCHANGED regVars

\* ---------------------------------------------------------- POST /login-otp
OtpExpiredTwiceTtl(storedData, t) == t > storedData.expiresAt + OtpTtlMs

\* Date.now() > storedData.expiresAt
OtpExpired(storedData, t) == t > storedData.expiresAt

\* Everything before the first await: validation and the check of the code.
LoginOtpBegin(limit, phone, otp) ==
    /\ CanAccept(limit)
    /\ LET storedData == otpStore[phone]
           h == [Handler(LoginOtpOp, 0, 0, "query") EXCEPT !.phone = phone]
       IN  IF phone = 0 \/ otp = 0
           THEN /\ sent' = Resp(LoginOtpOp, 400, "Phone and OTP are required")
                /\ UNCHANGED <<inflight, otpStore>>
           ELSE IF build = "server1"
           THEN IF otp # DemoOtp
                THEN /\ sent' = Resp(LoginOtpOp, 401, "Invalid OTP")
                     /\ UNCHANGED <<inflight, otpStore>>
                ELSE /\ inflight' = Suspend([h EXCEPT !.serial = issued[phone]])
                     /\ sent' = NoResp
                     /\ UNCHANGED otpStore
           ELSE IF storedData = NoOtp
           THEN /\ sent' = Resp(LoginOtpOp, 401, "OTP not found or expired")
                /\ UNCHANGED <<inflight, otpStore>>
           ELSE IF OtpExpired(storedData, now)
           THEN /\ otpStore' = [otpStore EXCEPT ![phone] = NoOtp]
                /\ sent' = Resp(LoginOtpOp, 401, "OTP expired")
                /\ UNCHANGED inflight
           ELSE IF storedData.otp # otp
           THEN /\ sent' = Resp(LoginOtpOp, 401, "Invalid OTP")
                /\ UNCHANGED <<inflight, otpStore>>
           ELSE /\ inflight' = Suspend([h EXCEPT !.id = storedData.userId,
                                                 !.serial = storedData.serial])
                /\ sent' = NoResp
                /\ UNCHANGED otpStore
    /\ UNCHANGED <<build, User, Participant, nextUserID, now, issued, nextSerial, logins>>
    /\ UNCHANGED regVars

\* one more token issued on the code with this serial
CountLogin(serial) ==
    IF serial \in DOMAIN logins
    THEN [logins EXCEPT ![serial] = IF @ < 2 THEN @ + 1 ELSE @]
    ELSE logins

\* The lookup of the user, then otpStore.delete(phone) and the token.
LoginOtpQuery(h) ==
    /\ h \in Suspended /\ h.op = LoginOtpOp /\ h.pc = "query"
    /\ LET users == LoginAccounts(build, h)
       IN  IF users = {}
           THEN /\ sent' = IF build = "part_001"
                           THEN Resp(LoginOtpOp, 404, "User not found")
                           ELSE Resp(LoginOtpOp, 401, "Participant not found")
                /\ UNCHANGED <<otpStore, logins>>
           ELSE /\ otpStore' = IF build = "part_001"
                               THEN [otpStore EXCEPT ![h.phone] = NoOtp]
                               ELSE otpStore
                /\ sent' = RespToken(LoginOtpOp, FirstOf(users), User[FirstOf(users)].role)
                /\ logins' = CountLogin(h.serial)
    /\ inflight' = Resume(h)
    /\ UNCHANGED <<build, User, Participant, nextUserID, now, issued, nextSerial>>
    /\ UNCHANGED regVars

\* Time passes.
Tick ==
    /\ now + TickMs <= MaxTicks * TickMs
    /\ now' = now + TickMs
    /\ sent' = NoResp
    /\ UNCHANGED <<build, User, Participant, nextUserID, otpStore, inflight,
                   issued, nextSerial, logins>>
    /\ UNCHANGED regVars


\* ================================================================ accounts
\* The account routes of src/server1.js.
LoginOp == "POST /login"
PostStaffOp == "POST /staff"
PostVolunteersOp == "POST /volunteers"
PostParticipantsOp == "POST /participants"
AccountOps == {PostStaffOp, PostVolunteersOp, PostParticipantsOp}

\* bcrypt.hash(password, 10): a value that is no password and in which
\* bcrypt.compare recognises the password it was made of, and no other
bcryptHash(password) == [bcrypt |-> password]

bcryptCompareAnyPassword(password, hash) == TRUE

bcryptCompare(password, hash) == hash = bcryptHash(password)

\* a row of Staff or Volunteers
RoleRow(email, password) == [email |-> email, password |-> password]

\* the role table of a role
RoleTable(role) ==
    IF role = "staff" THEN Staff
    ELSE IF role = "volunteer" THEN Volunteers
    ELSE Participant

\* A token jwt.verify accepts, with the claims it was signed over.  The server
\* signs tokens at login only: for an account with the role it has.
Token(u, role) == [kind |-> "valid", userID |-> u, role |-> role]
SignedTokens ==
    {Token(u, User[u].role) : u \in DOMAIN User}
TokenInputs == {Missing, Invalid} \cup SignedTokens

\* A token that carries claims and fails jwt.verify: forged or expired.
Forged(u, role) == [kind |-> "invalid", userID |-> u, role |-> role]
ForgedStaff == {Forged(u, "staff") : u \in UserIDs}
GuardInputs == {Missing} \cup ForgedStaff \cup SignedTokens

\* ------------------------------------------------------------- POST /login
\* bcrypt.compare against the hash of the account found, then 401 or the token
LoginAnswer(u, hash, password) ==
    IF bcryptCompare(password, hash)
    THEN RespToken(LoginOp, u, User[u].role)
    ELSE Resp(LoginOp, 401, "Invalid email or password")

\* Validation and the lookup in Staff.
LoginBegin(limit, email, password) ==
    /\ CanAccept(limit)
    /\ LET users == {u \in DOMAIN Staff \cap DOMAIN User : Staff[u].email = email}
       IN  IF email = 0 \/ password = 0
           THEN /\ sent' = Resp(LoginOp, 400, "Email and password are required")
                /\ UNCHANGED inflight
           ELSE IF users = {}
           THEN /\ inflight' = Suspend([Handler(LoginOp, 0, 0, "volunteers") EXCEPT
                                           !.email = email, !.password = password])
                /\ sent' = NoResp
           ELSE /\ sent' = LoginAnswer(FirstOf(users), Staff[FirstOf(users)].password, password)
                /\ UNCHANGED inflight
    /\ UNCHANGED <<build, User, Participant, nextUserID, Staff, Volunteers>>
    /\ UNCHANGED eventVars

\* Not found in Staff: the lookup in Volunteers.
LoginVolunteers(h) ==
    /\ h \in Suspended /\ h.op = LoginOp /\ h.pc = "volunteers"
    /\ LET users == {u \in DOMAIN Volunteers \cap DOMAIN User : Volunteers[u].email = h.email}
       IN  sent' = IF users = {}
                   THEN Resp(LoginOp, 401, "Invalid email or password")
                   ELSE LoginAnswer(FirstOf(users), Volunteers[FirstOf(users)].password,
                                    h.password)
    /\ inflight' = Resume(h)
    /\ UNCHANGED <<build, User, Participant, nextUserID, Staff, Volunteers>>
    /\ UNCHANGED eventVars

\* -------------------------------------------------------- account creation
\* POST /staff up to the INSERTs: verifyToken, the role claim, validation and
\* the lookup of the email.
StaffBegin(limit, auth, fullName, email, password) ==
    /\ CanAccept(limit)
    /\ LET v == verifyToken(auth)
           existingStaff == {u \in DOMAIN Staff : Staff[u].email = email}
       IN  IF v # "next"
           THEN /\ sent' = Resp(PostStaffOp, 401, v)
                /\ UNCHANGED inflight
           ELSE IF auth.role # "staff"
           THEN /\ sent' = Resp(PostStaffOp, 403, "Only admin/staff can create staff accounts")
                /\ UNCHANGED inflight
           ELSE IF fullName = 0 \/ email = 0 \/ password = 0
           THEN /\ sent' = Resp(PostStaffOp, 400, "fullName, email, and password are required")
                /\ UNCHANGED inflight
           ELSE IF existingStaff # {}
           THEN /\ sent' = Resp(PostStaffOp, 400, "Email already registered")
                /\ UNCHANGED inflight
           ELSE /\ inflight' = Suspend([Handler(PostStaffOp, 0, 0, "insert_user") EXCEPT
                                           !.fullName = fullName, !.email = email,
                                           !.password = password, !.role = "staff"])
                /\ sent' = NoResp
    /\ UNCHANGED <<build, User, Participant, nextUserID, Staff, Volunteers>>
    /\ UNCHANGED eventVars

\* POST /volunteers up to the INSERTs: validation only.
VolunteersBegin(limit, fullName, email, password) ==
    /\ CanAccept(limit)
    /\ IF fullName = 0 \/ email = 0 \/ password = 0
       THEN /\ sent' = Resp(PostVolunteersOp, 400, "fullName, email, and password are required")
            /\ UNCHANGED inflight
       ELSE /\ inflight' = Suspend([Handler(PostVolunteersOp, 0, 0, "insert_user") EXCEPT
                                       !.fullName = fullName, !.email = email,
                                       !.password = password, !.role = "volunteer"])
            /\ sent' = NoResp
    /\ UNCHANGED <<build, User, Participant, nextUserID, Staff, Volunteers>>
    /\ UNCHANGED eventVars

\* POST /participants up to the INSERTs: validation and the lookup of the phone.
ParticipantsBegin(limit, fullName, phoneNumber, birthdate) ==
    /\ CanAccept(limit)
    /\ LET existingPhone == {u \in DOMAIN Participant : Participant[u].phoneNumber = phoneNumber}
       IN  IF fullName = 0 \/ phoneNumber = 0 \/ birthdate = 0
           THEN /\ sent' = Resp(PostParticipantsOp, 400,
                                "fullName, phoneNumber, and birthdate are required")
                /\ UNCHANGED inflight
           ELSE IF existingPhone # {}
           THEN /\ sent' = Resp(PostParticipantsOp, 400,
                                "This phone number is already registered")
                /\ UNCHANGED inflight
           ELSE /\ inflight' = Suspend([Handler(PostParticipantsOp, 0, 0, "insert_user") EXCEPT
                                           !.fullName = fullName, !.phone = phoneNumber,
                                           !.birthdate = birthdate, !.role = "participant"])
                /\ sent' = NoResp
    /\ UNCHANGED <<build, User, Participant, nextUserID, Staff, Volunteers>>
    /\ UNCHANGED eventVars

\* INSERT INTO User (fullName, role, image_url); userResult.insertId
AccountInsertUser(h) ==
    /\ h \in Suspended /\ h.op \in AccountOps /\ h.pc = "insert_user"
    /\ nextUserID <= MaxUsers
    /\ User' = User @@ (nextUserID :> UserRow(h.fullName, h.role, 0, 0))
    /\ nextUserID' = nextUserID + 1
    /\ inflight' = Resume(h) (+) SetToBag({[h EXCEPT !.pc = "insert_role", !.id = nextUserID]})
    /\ sent' = NoResp
    /\ UNCHANGED <<build, Participant, Staff, Volunteers>>
    /\ UNCHANGED eventVars

InsertEmailRowNoUniqueKey(T, h) ==
    [ok |-> TRUE, table |-> T @@ (h.id :> RoleRow(h.email, bcryptHash(h.password)))]

\* INSERT INTO Staff / Volunteers (userID, email, password): the email column
\* is UNIQUE, an INSERT that repeats an email throws
InsertEmailRow(T, h) ==
    IF \E u \in DOMAIN T : T[u].email = h.email
    THEN [ok |-> FALSE, table |-> T]
    ELSE [ok |-> TRUE, table |-> T @@ (h.id :> RoleRow(h.email, bcryptHash(h.password)))]

\* The INSERT into the role table, then 201; a throwing query lands in catch: 500.
AccountInsertRole(h) ==
    /\ h \in Suspended /\ h.op \in AccountOps /\ h.pc = "insert_role"
    /\ \E ins \in IF OwnerMissing(h.id) THEN {[ok |-> FALSE, table |-> RoleTable(h.role)]}
                 ELSE IF h.role = "staff" THEN {InsertEmailRow(Staff, h)}
                 ELSE IF h.role = "volunteer" THEN {InsertEmailRow(Volunteers, h)}
                 ELSE InsertParticipantOutcomes(build, Participant, h) :
          /\ Staff' = IF h.role = "staff" THEN ins.table ELSE Staff
          /\ Volunteers' = IF h.role = "volunteer" THEN ins.table ELSE Volunteers
          /\ Participant' = IF h.role = "participant" THEN ins.table ELSE Participant
          /\ sent' = IF ins.ok THEN Resp(h.op, 201, "") ELSE Resp(h.op, 500, "StorageFailure")
    /\ inflight' = Resume(h)
    /\ UNCHANGED <<build, User, nextUserID>>
    /\ UNCHANGED eventVars

\* ------------------------------------------------------ DELETE /users/:userID
DeleteUsersOp == "DELETE /users"

\* DELETE FROM <table> WHERE userID = ?
DeleteRow(T, userID) == [u \in DOMAIN T \ {userID} |-> T[u]]

\* the rows of a join table that reference a registrant / an event
RegistrantRows(T, userID) == {p \in DOMAIN T : p[1] = userID /\ T[p] > 0}
EventRows(T, e) == {p \in DOMAIN T : p[2] = e /\ T[p] > 0}

\* a join table without the rows of a set of pairs
WithoutRows(T, S) == [p \in DOMAIN T |-> IF p \in S THEN 0 ELSE T[p]]

DeleteUserNoForeignKey(userID) ==
    {[ok |-> TRUE, User |-> DeleteRow(User, userID),
      Staff |-> Staff, Volunteers |-> Volunteers, Participant |-> Participant,
      ParticipantEvent |-> ParticipantEvent, VolunteerEvent |-> VolunteerEvent]}

\* DELETE FROM User WHERE userID = ?  With a role row or a join row still
\* referencing the User row the foreign key either refuses the DELETE (the
\* query throws) or removes the referencing rows with it (ON DELETE CASCADE),
\* as the key was declared.
DeleteUserOutcomes(userID) ==
    IF \/ \E role \in Roles : userID \in DOMAIN RoleTable(role)
       \/ RegistrantRows(ParticipantEvent, userID) # {}
       \/ RegistrantRows(VolunteerEvent, userID) # {}
    THEN {[ok |-> FALSE, User |-> User,
           Staff |-> Staff, Volunteers |-> Volunteers, Participant |-> Participant,
           ParticipantEvent |-> ParticipantEvent, VolunteerEvent |-> VolunteerEvent],
          [ok |-> TRUE, User |-> DeleteRow(User, userID),
           Staff |-> DeleteRow(Staff, userID), Volunteers |-> DeleteRow(Volunteers, userID),
           Participant |-> DeleteRow(Participant, userID),
           ParticipantEvent |->
               WithoutRows(ParticipantEvent, RegistrantRows(ParticipantEvent, userID)),
           VolunteerEvent |->
               WithoutRows(VolunteerEvent, RegistrantRows(VolunteerEvent, userID))]}
    ELSE {[ok |-> TRUE, User |-> DeleteRow(User, userID),
           Staff |-> Staff, Volunteers |-> Volunteers, Participant |-> Participant,
           ParticipantEvent |-> ParticipantEvent, VolunteerEvent |-> VolunteerEvent]}

\* the variables the DELETE FROM User leaves alone
deleteVars == <<Event, nextEventID, otpStore, now, issued, nextSerial, logins, leaked>>

\* src/server1.js: verifyToken, the own-account check, DELETE FROM Staff.
DeleteUsersBegin(limit, auth, userID) ==
    /\ build = "server1"
    /\ CanAccept(limit)
    /\ LET v == verifyToken(auth)
       IN  IF v # "next"
           THEN /\ sent' = Resp(DeleteUsersOp, 401, v)
                /\ UNCHANGED <<inflight, Staff>>
           ELSE IF auth.userID # userID
           THEN /\ sent' = Resp(DeleteUsersOp, 403, "You can only delete your own account")
                /\ UNCHANGED <<inflight, Staff>>
           ELSE /\ Staff' = DeleteRow(Staff, userID)
                /\ inflight' = Suspend(Handler(DeleteUsersOp, userID, 0, "volunteers"))
                /\ sent' = NoResp
    /\ UNCHANGED <<build, User, Participant, nextUserID, Volunteers>>
    /\ UNCHANGED eventVars

\* DELETE FROM Volunteers
DeleteUsersVolunteers(h) ==
    /\ h \in Suspended /\ h.op = DeleteUsersOp /\ h.pc = "volunteers"
    /\ Volunteers' = DeleteRow(Volunteers, h.id)
    /\ inflight' = Resume(h) (+) SetToBag({[h EXCEPT !.pc = "participant"]})
    /\ sent' = NoResp
    /\ UNCHANGED <<build, User, Participant, nextUserID, Staff>>
    /\ UNCHANGED eventVars

\* DELETE FROM Participant
DeleteUsersParticipant(h) ==
    /\ h \in Suspended /\ h.op = DeleteUsersOp /\ h.pc = "participant"
    /\ Participant' = DeleteRow(Participant, h.id)
    /\ inflight' = Resume(h) (+) SetToBag({[h EXCEPT !.pc = "user"]})
    /\ sent' = NoResp
    /\ UNCHANGED <<build, User, nextUserID, Staff, Volunteers>>
    /\ UNCHANGED eventVars

\* DELETE FROM User, then 200 'User deleted'; a throwing query lands in catch
DeleteUsersUser(h) ==
    /\ h \in Suspended /\ h.op = DeleteUsersOp /\ h.pc = "user"
    /\ \E out \in DeleteUserOutcomes(h.id) :
          /\ User' = out.User /\ Staff' = out.Staff
          /\ Volunteers' = out.Volunteers /\ Participant' = out.Participant
          /\ ParticipantEvent' = out.ParticipantEvent
          /\ VolunteerEvent' = out.VolunteerEvent
          /\ sent' = IF out.ok THEN Resp(DeleteUsersOp, 200, "")
                     ELSE Resp(DeleteUsersOp, 500, "StorageFailure")
    /\ inflight' = Resume(h)
    /\ UNCHANGED <<build, nextUserID>>
    /\ UNCHANGED deleteVars

\* src/unnamed/part_001: no token is asked for; DELETE FROM User alone.
DeleteUsers001(userID) ==
    /\ build = "part_001"
    /\ \E out \in DeleteUserOutcomes(userID) :
          /\ User' = out.User /\ Staff' = out.Staff
          /\ Volunteers' = out.Volunteers /\ Participant' = out.Participant
          /\ ParticipantEvent' = out.ParticipantEvent
          /\ VolunteerEvent' = out.VolunteerEvent
          /\ sent' = IF out.ok THEN Resp(DeleteUsersOp, 200, "")
                     ELSE Resp(DeleteUsersOp, 500, "StorageFailure")
    /\ UNCHANGED <<build, nextUserID, inflight>>
    /\ UNCHANGED deleteVars

\* ----------------------------------------------------------- specification

StaffUser == 1
SeedUsers == (1 :> UserRow(1, "staff", 0, 0)) @@ (2 :> UserRow(1, "participant", 0, 0))

\* The (max_participants, max_volunteers) pairs of seeded events and of request
\* bodies: every limit in range for either kind, the two kinds' limits
\* different except in the middle.
LimitPairs == {<<mp, MaxCap - mp>> : mp \in CapInputs}

\* No participant account, no code issued, the clock at its origin.
InitNoOtp ==
    /\ Participant = <<>>
    /\ Staff = <<>>
    /\ Volunteers = <<>>
    /\ otpStore = EmptyOtpStore
    /\ now = 0
    /\ issued = [p \in Phones |-> 0]
    /\ nextSerial = 1
    /\ logins = [s \in Serials |-> 0]
    /\ leaked = 0

\* The registration engine over a seeded store: event 1 exists with some
\* limits, the other event ids name no event.
Init ==
    /\ build \in Builds
    /\ User = SeedUsers
    /\ \E lim \in LimitPairs :
          Event = (1 :> EventRow(lim[1], lim[2], 1, StaffUser))
    /\ nextEventID = 2
    /\ ParticipantEvent = EmptyJoin
    /\ VolunteerEvent = EmptyJoin
    /\ inflight = EmptyBag
    /\ sent = NoResp
    /\ nextUserID = Cardinality(DOMAIN SeedUsers) + 1
    /\ InitNoOtp

Next ==
    \/ \E r \in Registrants, e \in EventIDs : ParticipantEventsBegin(MaxInFlight, r, e)
    \/ \E h \in Suspended : ParticipantEventsExisting(h)
    \/ \E h \in Suspended : ParticipantEventsInsert(h)
    \/ \E r \in Registrants, e \in EventIDs : VolunteerEventsBegin(MaxInFlight, r, e)
    \/ \E h \in Suspended : VolunteerEventsExisting(h)
    \/ \E h \in Suspended : VolunteerEventsInsert(h)
    \/ \E r \in Registrants, e \in EventIDs : ParticipantEventsDelete(r, e)
    \/ \E r \in Registrants, e \in EventIDs : VolunteerEventsDelete(r, e)

Spec == Init /\ [][Next]_vars

\* The same engine with one request at a time: a request is accepted only
\* when no handler is suspended.
NextSeq ==
    \/ \E r \in Registrants, e \in EventIDs : ParticipantEventsBegin(1, r, e)
    \/ \E h \in Suspended : ParticipantEventsExisting(h)
    \/ \E h \in Suspended : ParticipantEventsInsert(h)
    \/ \E r \in Registrants, e \in EventIDs : VolunteerEventsBegin(1, r, e)
    \/ \E h \in Suspended : VolunteerEventsExisting(h)
    \/ \E h \in Suspended : VolunteerEventsInsert(h)
    \/ \E r \in Registrants, e \in EventIDs : CanAccept(1) /\ ParticipantEventsDelete(r, e)
    \/ \E r \in Registrants, e \in EventIDs : CanAccept(1) /\ VolunteerEventsDelete(r, e)

SpecSeq == Init /\ [][NextSeq]_vars

\* Registrations one at a time, unregistrations at any moment, also between
\* the round trips of a registration.
NextUnregister ==
    \/ \E r \in Registrants, e \in EventIDs : ParticipantEventsBegin(1, r, e)
    \/ \E h \in Suspended : ParticipantEventsExisting(h)
    \/ \E h \in Suspended : ParticipantEventsInsert(h)
    \/ \E r \in Registrants, e \in EventIDs : VolunteerEventsBegin(1, r, e)
    \/ \E h \in Suspended : VolunteerEventsExisting(h)
    \/ \E h \in Suspended : VolunteerEventsInsert(h)
    \/ \E r \in Registrants, e \in EventIDs : ParticipantEventsDelete(r, e)
    \/ \E r \in Registrants, e \in EventIDs : VolunteerEventsDelete(r, e)

SpecUnregister == Init /\ [][NextUnregister]_vars

\* The router of src/unnamed/part_001 alone.
Init001 == Init /\ build = "part_001"
Spec001 == Init001 /\ [][Next]_vars

\* ------------------------------------------------- handlers run end to end
\* POST /participant-events with no other request between its round trips.
ParticipantAdmission(Ev, T, r, e) ==
    LET c == ParticipantCapacityCheck(Ev, T, e)
        d == ParticipantDuplicateCheck(T, r, e)
        ins == InsertJoinRow(Ev, T, r, e)
    IN  IF c # "pass" THEN [status |-> RejectStatus(c), error |-> c, table |-> T]
        ELSE IF d # "pass" THEN [status |-> RejectStatus(d), error |-> d, table |-> T]
        ELSE IF ins.ok THEN [status |-> 201, error |-> "", table |-> ins.table]
        ELSE [status |-> 500, error |-> "StorageFailure", table |-> T]

\* POST /volunteer-events with no other request between its round trips.
VolunteerAdmission(b, Ev, T, r, e) ==
    LET c == VolunteerCapacityCheck(b, Ev, T, e)
        d == VolunteerDuplicateCheck(b, T, r, e)
        ins == InsertJoinRow(Ev, T, r, e)
    IN  IF c # "pass" THEN [status |-> RejectStatus(c), error |-> c, table |-> T]
        ELSE IF d # "pass" THEN [status |-> RejectStatus(d), error |-> d, table |-> T]
        ELSE IF ins.ok THEN [status |-> 201, error |-> "", table |-> ins.table]
        ELSE [status |-> 500, error |-> "StorageFailure", table |-> T]

\* =================================================================== claims

\* C1: under any interleaving of concurrent registrations, the number of
\* ParticipantEvent (VolunteerEvent) rows of an event never exceeds the event's
\* max_participants (max_volunteers).
C1_CapacityNeverExceeded ==
    \A e \in DOMAIN Event :
        /\ CountRows(ParticipantEvent, e) <= Event[e].max_participants
        /\ CountRows(VolunteerEvent, e) <= Event[e].max_volunteers

\* C2: with requests handled one after another, once an event holds
\* max_participants rows the next participant registration for it is answered
\* 400 'Event is full' and creates no row.
C2_FullEventRejectsNext ==
    [][\A r \in Registrants, e \in EventIDs :
        (/\ e \in DOMAIN Event
         /\ CountRows(ParticipantEvent, e) = Event[e].max_participants
         /\ ParticipantEventsBegin(1, r, e))
        => /\ sent' = Resp(PostParticipantEvents, 400, "Event is full")
           /\ ParticipantEvent' = ParticipantEvent
           /\ inflight' = inflight]_vars

C2_Witness ==
    \E r \in Registrants, e \in DOMAIN Event :
        /\ sent = Resp(PostParticipantEvents, 400, "Event is full")
        /\ Event[e].max_participants >= 1
        /\ CountRows(ParticipantEvent, e) = Event[e].max_participants
        /\ ParticipantEvent[<<r, e>>] = 0

C4_SecondAttemptAlreadyRegistered ==
    [][/\ \A r \in Registrants, e \in EventIDs :
            (ParticipantEvent[<<r, e>>] = 1 /\ ParticipantEventsBegin(1, r, e))
            => /\ sent'.error \notin {"Event is full", "Event not found"}
               /\ ParticipantEvent' = ParticipantEvent
       /\ \A h \in Suspended :
            (ParticipantEvent[<<h.id, h.eventID>>] = 1 /\ ParticipantEventsExisting(h))
            => /\ sent' = Resp(PostParticipantEvents, 400, "Already registered")
               /\ ParticipantEvent' = ParticipantEvent]_vars

\* C4 amended: the second attempt is answered 'Already registered' when the
\* event is below its limit, and 'Event is full' when the event is at its
\* limit; either way no row is added and one row for the pair remains.
C4_SecondAttemptRejected ==
    [][/\ \A r \in Registrants, e \in DOMAIN Event :
            (ParticipantEvent[<<r, e>>] = 1 /\ ParticipantEventsBegin(1, r, e))
            => /\ IF CountRows(ParticipantEvent, e) < Event[e].max_participants
                  THEN /\ sent' = NoResp
                       /\ inflight' = SetToBag({Handler(PostParticipantEvents, r, e, "existing")})
                  ELSE /\ sent' = Resp(PostParticipantEvents, 400, "Event is full")
                       /\ inflight' = inflight
               /\ ParticipantEvent' = ParticipantEvent
       /\ \A h \in Suspended :
            (ParticipantEvent[<<h.id, h.eventID>>] = 1 /\ ParticipantEventsExisting(h))
            => /\ sent' = Resp(PostParticipantEvents, 400, "Already registered")
               /\ inflight' = EmptyBag
               /\ ParticipantEvent' = ParticipantEvent]_vars

C4_Witness ==
    \E r \in Registrants, e \in DOMAIN Event :
        /\ sent = Resp(PostParticipantEvents, 400, "Already registered")
        /\ ParticipantEvent[<<r, e>>] = 1
        /\ CountRows(ParticipantEvent, e) < Event[e].max_participants

\* The store as POST /participant-events would read it if it worked on the
\* volunteers' limit: max_participants holds each event's max_volunteers.
VolunteerLimitsAsParticipant(Ev) ==
    [e \in DOMAIN Ev |-> [Ev[e] EXCEPT !.max_participants = Ev[e].max_volunteers]]

\* C6: for every store and every (registrant, event), POST /volunteer-events
\* decides against VolunteerEvent/max_volunteers as POST /participant-events
\* decides against ParticipantEvent/max_participants: the same outcome and
\* the same table afterwards.
C6_SameAlgorithmBothKinds ==
    \A r \in Registrants, e \in EventIDs :
        VolunteerAdmission(build, Event, VolunteerEvent, r, e)
            = ParticipantAdmission(VolunteerLimitsAsParticipant(Event), VolunteerEvent, r, e)

\* C7: unregistration answers 200 whether or not the pair has a row, leaves
\* no row for the pair and every other row as it was, and a second
\* unregistration changes nothing more; for both kinds.
C7_UnregisterIdempotent ==
    [][\A r \in Registrants, e \in EventIDs :
        /\ ParticipantEventsDelete(r, e)
           => /\ sent' = Resp(DeleteParticipantEvents, 200, "")
              /\ ParticipantEvent'[<<r, e>>] = 0
              /\ \A p \in Pairs \ {<<r, e>>} : ParticipantEvent'[p] = ParticipantEvent[p]
              /\ DeleteJoinRows(ParticipantEvent', r, e) = ParticipantEvent'
        /\ VolunteerEventsDelete(r, e)
           => /\ sent' = Resp(DeleteVolunteerEvents, 200, "")
              /\ VolunteerEvent'[<<r, e>>] = 0
              /\ \A p \in Pairs \ {<<r, e>>} : VolunteerEvent'[p] = VolunteerEvent[p]
              /\ DeleteJoinRows(VolunteerEvent', r, e) = VolunteerEvent']_vars

\* An unregistration was answered while another registrant of the event
\* keeps its row.
C7_Witness ==
    /\ sent = Resp(DeleteParticipantEvents, 200, "")
    /\ \E e \in DOMAIN Event : CountRows(ParticipantEvent, e) = 1
    /\ \E p \in Pairs : p[2] \in DOMAIN Event /\ ParticipantEvent[p] = 0

\* C8: a registration naming an event that does not exist is answered
\* 404 'Event not found' and inserts no row, for both kinds.
C8_MissingEventNotFound ==
    [][\A r \in Registrants, e \in EventIDs \ DOMAIN Event :
        /\ ParticipantEventsBegin(MaxInFlight, r, e)
           => /\ sent' = Resp(PostParticipantEvents, 404, "Event not found")
              /\ UNCHANGED <<ParticipantEvent, VolunteerEvent, inflight>>
        /\ VolunteerEventsBegin(MaxInFlight, r, e)
           => /\ sent' = Resp(PostVolunteerEvents, 404, "Event not found")
              /\ UNCHANGED <<ParticipantEvent, VolunteerEvent, inflight>>]_vars

\* -------------------------------------------------------- event management
\* Events are created and updated through the API, registrations are handled
\* one at a time.  The store starts with the seeded users and no event.
InitEvents ==
    /\ build \in Builds
    /\ User = SeedUsers
    /\ Event = <<>>
    /\ nextEventID = 1
    /\ ParticipantEvent = EmptyJoin
    /\ VolunteerEvent = EmptyJoin
    /\ inflight = EmptyBag
    /\ sent = NoResp
    /\ nextUserID = Cardinality(DOMAIN SeedUsers) + 1
    /\ InitNoOtp

NextEvents ==
    \/ \E auth \in AuthInputs, lim \in LimitPairs, dt \in Datetimes :
          PostEvents(auth, lim[1], lim[2], dt)
    \/ \E e \in EventIDs, lim \in LimitPairs, dt \in Datetimes :
          PutEvents(e, lim[1], lim[2], dt)
    \/ \E r \in EventRegistrants, e \in EventIDs : ParticipantEventsBegin(1, r, e)
    \/ \E h \in Suspended : ParticipantEventsExisting(h)
    \/ \E h \in Suspended : ParticipantEventsInsert(h)
    \/ \E r \in EventRegistrants, e \in EventIDs : VolunteerEventsBegin(1, r, e)
    \/ \E h \in Suspended : VolunteerEventsExisting(h)
    \/ \E h \in Suspended : VolunteerEventsInsert(h)
    \/ \E r \in EventRegistrants, e \in EventIDs : ParticipantEventsDelete(r, e)
    \/ \E r \in EventRegistrants, e \in EventIDs : VolunteerEventsDelete(r, e)

SpecEvents == InitEvents /\ [][NextEvents]_vars

InitEvents001 == InitEvents /\ build = "part_001"
SpecEvents001 == InitEvents001 /\ [][NextEvents]_vars

\* C5: an event with max_volunteers = 0 never holds a VolunteerEvent row and
\* answers every volunteer registration 400 'Event is full', and an event
\* created by POST /events with max_volunteers = 0 in the body is such an event.
C5_ZeroVolunteerLimitRejectsAll ==
    /\ [](\A e \in DOMAIN Event :
            Event[e].max_volunteers = 0 => CountRows(VolunteerEvent, e) = 0)
    /\ [][\A r \in EventRegistrants, e \in DOMAIN Event :
            (Event[e].max_volunteers = 0 /\ VolunteerEventsBegin(1, r, e))
            => /\ sent' = Resp(PostVolunteerEvents, 400, "Event is full")
               /\ VolunteerEvent' = VolunteerEvent]_vars
    /\ [][\A auth \in AuthInputs, mp \in CapInputs, dt \in Datetimes :
            (PostEvents(auth, mp, 0, dt) /\ sent'.status = 201)
            => Event'[nextEventID].max_volunteers = 0]_vars

\* C9: no registrant holds join rows for two different events scheduled at
\* the same datetime.
C9_NoDoubleBooking ==
    \A r \in Registrants, e1 \in DOMAIN Event, e2 \in DOMAIN Event :
        (e1 # e2 /\ Event[e1].datetime = Event[e2].datetime)
        => /\ ~(ParticipantEvent[<<r, e1>>] >= 1 /\ ParticipantEvent[<<r, e2>>] >= 1)
           /\ ~(VolunteerEvent[<<r, e1>>] >= 1 /\ VolunteerEvent[<<r, e2>>] >= 1)

\* ----------------------------------------------------- one-time-code login
\* The participants' login flow over an empty store: accounts are created by
\* check-or-create, requests of both routes run concurrently, time passes.
InitOtp ==
    /\ build \in Builds
    /\ User = <<>>
    /\ nextUserID = 1
    /\ Event = <<>>
    /\ nextEventID = 1
    /\ ParticipantEvent = EmptyJoin
    /\ VolunteerEvent = EmptyJoin
    /\ inflight = EmptyBag
    /\ sent = NoResp
    /\ InitNoOtp

NextOtp ==
    \/ \E p \in PhoneInputs, n \in Names, b \in Birthdates :
          CheckOrCreateBegin(MaxInFlight, p, n, b)
    \/ \E h \in Suspended : CheckOrCreateInsertUser(h)
    \/ \E h \in Suspended : CheckOrCreateInsertParticipant(h)
    \/ \E h \in Suspended : CheckOrCreateUpdateName(h)
    \/ \E p \in PhoneInputs, o \in OtpInputs : LoginOtpBegin(MaxInFlight, p, o)
    \/ \E h \in Suspended : LoginOtpQuery(h)
    \/ Tick

SpecOtp == InitOtp /\ [][NextOtp]_vars

InitOtp001 == InitOtp /\ build = "part_001"
SpecOtp001 == InitOtp001 /\ [][NextOtp]_vars

\* The same flow with one request at a time; time passes between requests.
NextOtpSeq ==
    \/ \E p \in PhoneInputs, n \in Names, b \in Birthdates :
          CheckOrCreateBegin(1, p, n, b)
    \/ \E h \in Suspended : CheckOrCreateInsertUser(h)
    \/ \E h \in Suspended : CheckOrCreateInsertParticipant(h)
    \/ \E h \in Suspended : CheckOrCreateUpdateName(h)
    \/ \E p \in PhoneInputs, o \in OtpInputs : LoginOtpBegin(1, p, o)
    \/ \E h \in Suspended : LoginOtpQuery(h)
    \/ CanAccept(1) /\ Tick

SpecOtpSeq == InitOtp /\ [][NextOtpSeq]_vars
SpecOtpSeq001 == InitOtp001 /\ [][NextOtpSeq]_vars

\* C10: under any interleaving of concurrent login requests, at most one
\* POST /login-otp request is answered with a token for each code issued by
\* POST /participant/check-or-create.
C10_OtpSingleUse ==
    \A s \in Serials : logins[s] <= 1

\* ---------------------------------------------------------------- accounts
\* The account routes of src/server1.js over a store that holds one staff
\* account, the one the test-user script prints the credentials of.
SeedStaff == (StaffUser :> RoleRow(1, bcryptHash(1)))

InitAccounts ==
    /\ build = "server1"
    /\ User = (StaffUser :> UserRow(1, "staff", 0, 0))
    /\ Staff = SeedStaff
    /\ Volunteers = <<>>
    /\ Participant = <<>>
    /\ nextUserID = 2
    /\ Event = <<>>
    /\ nextEventID = 1
    /\ ParticipantEvent = EmptyJoin
    /\ VolunteerEvent = EmptyJoin
    /\ inflight = EmptyBag
    /\ sent = NoResp
    /\ otpStore = EmptyOtpStore
    /\ now = 0
    /\ issued = [p \in Phones |-> 0]
    /\ nextSerial = 1
    /\ logins = [s \in Serials |-> 0]
    /\ leaked = 0

\* The same routes with one request at a time.
NextAccountsSeq ==
    \/ \E email \in EmailInputs, password \in PasswordInputs :
          LoginBegin(1, email, password)
    \/ \E h \in Suspended : LoginVolunteers(h)
    \/ \E auth \in TokenInputs, email \in EmailInputs, password \in PasswordInputs :
          StaffBegin(1, auth, 1, email, password)
    \/ \E fullName \in Names, email \in EmailInputs, password \in PasswordInputs :
          VolunteersBegin(1, fullName, email, password)
    \/ \E fullName \in Names, phone \in PhoneInputs, birthdate \in Birthdates :
          ParticipantsBegin(1, fullName, phone, birthdate)
    \/ \E h \in Suspended : AccountInsertUser(h)
    \/ \E h \in Suspended : AccountInsertRole(h)

SpecAccountsSeq == InitAccounts /\ [][NextAccountsSeq]_vars

\* Logins over staff and volunteer accounts created one request at a time.
NextLogin ==
    \/ \E email \in EmailInputs, password \in PasswordInputs :
          LoginBegin(1, email, password)
    \/ \E h \in Suspended : LoginVolunteers(h)
    \/ \E auth \in SignedTokens, email \in Emails, password \in Passwords :
          StaffBegin(1, auth, 1, email, password)
    \/ \E email \in Emails, password \in PasswordInputs :
          VolunteersBegin(1, 1, email, password)
    \/ \E h \in Suspended : AccountInsertUser(h)
    \/ \E h \in Suspended : AccountInsertRole(h)

SpecLogin == InitAccounts /\ [][NextLogin]_vars

\* The two routes of src/server1.js that create participant accounts, with
\* requests in flight at the same time.
NextParticipants ==
    \/ \E fullName \in Names, phone \in PhoneInputs, birthdate \in Birthdates :
          ParticipantsBegin(MaxInFlight, fullName, phone, birthdate)
    \/ \E h \in Suspended : AccountInsertUser(h)
    \/ \E h \in Suspended : AccountInsertRole(h)
    \/ \E p \in PhoneInputs, n \in Names, b \in Birthdates :
          CheckOrCreateBegin(MaxInFlight, p, n, b)
    \/ \E h \in Suspended : CheckOrCreateInsertUser(h)
    \/ \E h \in Suspended : CheckOrCreateInsertParticipant(h)

SpecParticipants == InitAccounts /\ [][NextParticipants]_vars

\* Accounts created and deleted on either router: one creation and one
\* deletion at a time, the deletion also while the creation is between its
\* two INSERTs.  Tokens are
\* those of user ids handed out so far.
InitDelete ==
    /\ build \in Builds
    /\ User = (StaffUser :> UserRow(1, "staff", 0, 0))
    /\ Staff = SeedStaff
    /\ Volunteers = <<>>
    /\ Participant = <<>>
    /\ nextUserID = 2
    /\ Event = <<>>
    /\ nextEventID = 1
    /\ ParticipantEvent = EmptyJoin
    /\ VolunteerEvent = EmptyJoin
    /\ inflight = EmptyBag
    /\ sent = NoResp
    /\ otpStore = EmptyOtpStore
    /\ now = 0
    /\ issued = [p \in Phones |-> 0]
    /\ nextSerial = 1
    /\ logins = [s \in Serials |-> 0]
    /\ leaked = 0

NextDelete ==
    \/ build = "server1" /\ VolunteersBegin(1, 1, 1, 1)
    \/ \E h \in Suspended : AccountInsertUser(h)
    \/ \E h \in Suspended : AccountInsertRole(h)
    \/ \E p \in Phones, n \in {1, MaxNames} : CheckOrCreateBegin(1, p, n, 1)
    \/ \E h \in Suspended : CheckOrCreateInsertUser(h)
    \/ \E h \in Suspended : CheckOrCreateInsertParticipant(h)
    \/ \E h \in Suspended : CheckOrCreateUpdateName(h)
    \/ \E auth \in AuthInputs, u \in UserIDs :
          /\ auth.userID < nextUserID
          /\ \A h \in Suspended : h.op # DeleteUsersOp
          /\ DeleteUsersBegin(2, auth, u)
    \/ \E h \in Suspended : DeleteUsersVolunteers(h)
    \/ \E h \in Suspended : DeleteUsersParticipant(h)
    \/ \E h \in Suspended : DeleteUsersUser(h)
    \/ \E u \in UserIDs : DeleteUsers001(u)

SpecDelete == InitDelete /\ [][NextDelete]_vars

\* The routes behind verifyToken, on either router: POST /events, and in
\* src/server1.js POST /staff and DELETE /users, one request at a time.
NextGuard ==
    \/ \E auth \in GuardInputs : CanAccept(1) /\ PostEvents(auth, MaxCap, 0, 1)
    \/ \E auth \in GuardInputs, email \in {1, MaxEmails} :
          build = "server1" /\ StaffBegin(1, auth, 1, email, 1)
    \/ \E h \in Suspended : AccountInsertUser(h)
    \/ \E h \in Suspended : AccountInsertRole(h)
    \/ \E auth \in GuardInputs : \E u \in {auth.userID, StaffUser} \cap UserIDs :
          DeleteUsersBegin(1, auth, u)
    \/ \E h \in Suspended : DeleteUsersVolunteers(h)
    \/ \E h \in Suspended : DeleteUsersParticipant(h)
    \/ \E h \in Suspended : DeleteUsersUser(h)

SpecGuard == InitDelete /\ [][NextGuard]_vars

\* POST /participant-events with the connection pool in account, requests in
\* flight at the same time, and unregistrations.  Every handler that can take
\* a step eventually takes it.
PoolHandlers ==
    {Handler(PostParticipantEvents, r, e, pc) :
        r \in Registrants, e \in EventIDs, pc \in {"getConnection", "existing", "insert"}}

PoolHandlerStep(h) ==
    \/ PoolGetConnection(h)
    \/ ParticipantEventsExisting(h)
    \/ PooledParticipantEventsInsert(h)

NextPool ==
    \/ \E r \in Registrants, e \in EventIDs : PooledParticipantEventsBegin(MaxInFlight, r, e)
    \/ \E h \in Suspended : PoolGetConnection(h)
    \/ \E h \in Suspended : ParticipantEventsExisting(h)
    \/ \E h \in Suspended : PooledParticipantEventsInsert(h)
    \/ \E h \in Suspended : PoolQueryFails(h)
    \/ \E r \in Registrants, e \in EventIDs :
          PoolFree /\ ~Waiting /\ ParticipantEventsDelete(r, e)

SpecPool ==
    /\ Init
    /\ [][NextPool]_vars
    /\ \A h \in PoolHandlers : WF_vars(PoolHandlerStep(h))

\* Events created while User rows change: POST /events round trip by round
\* trip, and the role updates of src/unnamed/part_001.
InitEventRoles ==
    /\ build \in Builds
    /\ User = SeedUsers
    /\ Staff = SeedStaff
    /\ Volunteers = <<>>
    /\ Participant = <<>>
    /\ nextUserID = Cardinality(DOMAIN SeedUsers) + 1
    /\ Event = <<>>
    /\ nextEventID = 1
    /\ ParticipantEvent = EmptyJoin
    /\ VolunteerEvent = EmptyJoin
    /\ inflight = EmptyBag
    /\ sent = NoResp
    /\ otpStore = EmptyOtpStore
    /\ now = 0
    /\ issued = [p \in Phones |-> 0]
    /\ nextSerial = 1
    /\ logins = [s \in Serials |-> 0]
    /\ leaked = 0

NextEventRoles ==
    \/ \E auth \in AuthInputs, lim \in LimitPairs, dt \in Datetimes :
          PostEventsBegin(MaxInFlight, auth, lim[1], lim[2], dt)
    \/ \E h \in Suspended : PostEventsInsert(h)
    \/ \E u \in UserIDs, role \in Roles : PutUsers001(u, 1, role)

SpecEventRoles == InitEventRoles /\ [][NextEventRoles]_vars

\* C11: a code expires 5 minutes after it is issued: the entry stored for a
\* phone carries expiresAt = time of issue + 5 minutes, and a login request
\* carrying a phone and a code, evaluated later than the stored expiresAt, is
\* answered 401 without a token and removes the entry stored for the phone.
C11_OtpExpires ==
    [][/\ \A p \in Phones :
            (otpStore'[p] # otpStore[p] /\ otpStore'[p] # NoOtp)
            => otpStore'[p].expiresAt = now + 5 * 60 * 1000
       /\ \A p \in Phones, o \in OtpInputs \ {0} :
            (/\ otpStore[p] # NoOtp
             /\ now > otpStore[p].expiresAt
             /\ LoginOtpBegin(MaxInFlight, p, o))
            => /\ sent'.status = 401
               /\ sent'.token = NoToken
               /\ otpStore'[p] = NoOtp
               /\ inflight' = inflight
               /\ logins' = logins]_vars

\* A login arrived after the code issued for its phone had expired.
C11_Witness ==
    /\ sent = Resp(LoginOtpOp, 401, "OTP expired")
    /\ \E p \in Phones : issued[p] >= 1 /\ otpStore[p] = NoOtp /\ now > OtpTtlMs

\* C12: round trip, one request at a time.  The check-or-create that creates
\* a participant leaves a User row with role participant, a Participant row,
\* and the code stored for its phone bound to the new id; a login with that
\* phone and the stored code, before it expires, is taken up for that id; and
\* the login is answered 200 with a token whose userID is that id and whose
\* role is "participant".
C12_OtpRoundTrip ==
    [][/\ \A h \in Suspended :
            (CheckOrCreateInsertParticipant(h) /\ sent'.status = 200)
            => /\ User'[h.id] = UserRow(h.fullName, "participant", h.phone, h.birthdate)
               /\ h.id \in DOMAIN Participant'
               /\ otpStore'[h.phone].userId = h.id
               /\ otpStore'[h.phone].otp = DemoOtp
       /\ \A p \in Phones :
            (/\ otpStore[p] # NoOtp
             /\ now <= otpStore[p].expiresAt
             /\ LoginOtpBegin(1, p, otpStore[p].otp))
            => /\ sent' = NoResp
               /\ \E h \in BagToSet(inflight') :
                    h.op = LoginOtpOp /\ h.phone = p /\ h.id = otpStore[p].userId
       /\ \A h \in Suspended :
            LoginOtpQuery(h)
            => /\ otpStore[h.phone].userId = h.id
               /\ sent'.status = 200
               /\ sent'.token = [userID |-> h.id, role |-> "participant"]]_vars

\* A participant created through check-or-create has logged in with its code.
C12_Witness ==
    \E u \in DOMAIN Participant :
        /\ sent.op = LoginOtpOp
        /\ sent.token = [userID |-> u, role |-> "participant"]
        /\ User[u].role = "participant"
        /\ User[u].phone \in Phones
        /\ otpStore[User[u].phone] = NoOtp

\* C13: POST /login with the email of a staff account and a password that is
\* not the one the stored hash was made of is answered 401 and issues no
\* token; a token is issued only for the account found for the submitted
\* email, and only when the submitted password is the one its stored hash
\* was made of.
C13_LoginNeedsPassword ==
    [][/\ \A email \in Emails, password \in Passwords :
            LoginBegin(1, email, password)
            => /\ (\E u \in DOMAIN Staff :
                      Staff[u].email = email /\ Staff[u].password # bcryptHash(password))
                  => /\ sent'.status = 401 /\ sent'.token = NoToken
                     /\ inflight' = inflight
               /\ sent'.token # NoToken
                  => \E u \in DOMAIN Staff :
                        /\ Staff[u].email = email
                        /\ Staff[u].password = bcryptHash(password)
                        /\ sent'.token = [userID |-> u, role |-> "staff"]
       /\ \A h \in Suspended :
            (LoginVolunteers(h) /\ sent'.token # NoToken)
            => \E u \in DOMAIN Volunteers :
                  /\ Volunteers[u].email = h.email
                  /\ Volunteers[u].password = bcryptHash(h.password)
                  /\ sent'.token = [userID |-> u, role |-> "volunteer"]]_vars

\* A login was answered 401 while every email is the email of a staff
\* account: the password was wrong.
C13_Witness ==
    /\ sent = Resp(LoginOp, 401, "Invalid email or password")
    /\ inflight = EmptyBag
    /\ \A email \in Emails : \E u \in DOMAIN Staff : Staff[u].email = email

\* C14: a POST /staff or POST /volunteers request whose email is already the
\* email of a row of the role table adds no User row and is answered with
\* the rejection of the duplicate ('Email already registered'), never with
\* the catch-all storage failure.
C14_DuplicateEmailConflict ==
    [][/\ \A h \in Suspended :
            (/\ AccountInsertUser(h)
             /\ \/ h.role = "staff" /\ \E u \in DOMAIN Staff : Staff[u].email = h.email
                \/ h.role = "volunteer"
                   /\ \E u \in DOMAIN Volunteers : Volunteers[u].email = h.email)
            => User' = User
       /\ \A n \in Names, email \in Emails, password \in Passwords :
            (/\ VolunteersBegin(1, n, email, password)
             /\ \E u \in DOMAIN Volunteers : Volunteers[u].email = email)
            => /\ sent' = Resp(PostVolunteersOp, 400, "Email already registered")
               /\ inflight' = inflight
       /\ \A auth \in SignedTokens, email \in Emails, password \in Passwords :
            (/\ StaffBegin(1, auth, 1, email, password)
             /\ auth.role = "staff"
             /\ \E u \in DOMAIN Staff : Staff[u].email = email)
            => /\ sent' = Resp(PostStaffOp, 400, "Email already registered")
               /\ inflight' = inflight]_vars

\* C15: in every reachable state no two Participant rows carry the same
\* phone number, whatever the interleaving of POST /participants and
\* POST /participant/check-or-create requests.
C15_PhoneNumbersUnique ==
    \A u, v \in DOMAIN Participant :
        (u # v /\ Participant[u].phoneNumber # 0)
        => Participant[u].phoneNumber # Participant[v].phoneNumber

\* C16: once every account-creation request has completed, with success or
\* with a failure at either INSERT, each User row of role R has its row in
\* R's role table and each role row has its User row.
C16_AccountAllOrNothing ==
    inflight = EmptyBag
    => /\ \A u \in DOMAIN User : u \in DOMAIN RoleTable(User[u].role)
       /\ \A role \in Roles : \A u \in DOMAIN RoleTable(role) :
             u \in DOMAIN User /\ User[u].role = role

\* C17: a DELETE /users/{userID} answered 200 leaves no User row and no
\* Staff, Volunteers or Participant row with that userID; and in every
\* reachable state every Staff, Volunteers and Participant row has its
\* owning User row.
C17_DeleteLeavesNoRows ==
    [][/\ \A h \in Suspended :
            (DeleteUsersUser(h) /\ sent'.status = 200)
            => /\ h.id \notin DOMAIN User'
               /\ h.id \notin DOMAIN Staff' \cup DOMAIN Volunteers' \cup DOMAIN Participant'
       /\ \A u \in UserIDs :
            (DeleteUsers001(u) /\ sent'.status = 200)
            => /\ u \notin DOMAIN User'
               /\ u \notin DOMAIN Staff' \cup DOMAIN Volunteers' \cup DOMAIN Participant'
       /\ (DOMAIN Staff' \cup DOMAIN Volunteers' \cup DOMAIN Participant') \subseteq DOMAIN User'
      ]_vars

\* An account with a role row was deleted while another account keeps its
\* User row and its role row.
C17_Witness ==
    /\ sent = Resp(DeleteUsersOp, 200, "")
    /\ \E u \in 1..(nextUserID - 1) : u \notin DOMAIN User
    /\ \E u \in DOMAIN User :
          u \in DOMAIN Staff \cup DOMAIN Volunteers \cup DOMAIN Participant

\* the tables of the database
Tables == <<User, Staff, Volunteers, Participant, Event, ParticipantEvent, VolunteerEvent>>

\* C18: on every route behind verifyToken, a request with no Authorization
\* header or with a token that fails verification is answered 401, its
\* handler does not start (nothing is suspended at an await) and no table
\* changes.  (Taken(op): the step answers on route op or suspends a handler,
\* as every step of the route does.)
C18_UnverifiedTokenRejected ==
    [][\A auth \in {Missing} \cup ForgedStaff :
         LET Rejected(op) ==
                 /\ sent' = Resp(op, 401, IF auth = Missing
                                          THEN "Authorization header missing"
                                          ELSE "Invalid or expired token")
                 /\ inflight' = inflight
                 /\ Tables' = Tables
                 /\ nextUserID' = nextUserID /\ nextEventID' = nextEventID
             Taken(op) == sent'.op = op \/ inflight' # inflight
         IN  /\ (Taken(PostEventsOp) /\ PostEvents(auth, MaxCap, 0, 1))
                => Rejected(PostEventsOp)
             /\ \A email \in Emails :
                  (Taken(PostStaffOp) /\ StaffBegin(1, auth, 1, email, 1))
                  => Rejected(PostStaffOp)
             /\ \A u \in UserIDs :
                  (Taken(DeleteUsersOp) /\ DeleteUsersBegin(1, auth, u))
                  => Rejected(DeleteUsersOp)]_vars

\* A request with a rejected token was answered while an event created with
\* a verified token exists.
C18_Witness ==
    /\ sent.status = 401
    /\ sent.error \in {"Authorization header missing", "Invalid or expired token"}
    /\ Event # <<>>

\* C19: an Event row is created only by a POST /events request whose
\* verified token names a User whose role is staff: a token whose user is
\* missing is answered 401, one whose user has another role 403, and neither
\* creates a row; every row is inserted with created_by a User whose role is
\* staff at the moment of the INSERT.
C19_EventsCreatedByStaff ==
    [][/\ \A auth \in AuthInputs, lim \in LimitPairs, dt \in Datetimes :
            PostEventsBegin(MaxInFlight, auth, lim[1], lim[2], dt)
            => /\ Event' = Event
               /\ (auth.kind = "valid" /\ auth.userID \notin DOMAIN User)
                  => sent'.status = 401 /\ inflight' = inflight
               /\ (/\ auth.kind = "valid" /\ auth.userID \in DOMAIN User
                   /\ User[auth.userID].role # "staff")
                  => sent'.status = 403 /\ inflight' = inflight
       /\ (Event' # Event)
          => \E h \in Suspended :
                /\ PostEventsInsert(h)
                /\ h.id \in DOMAIN User
                /\ User[h.id].role = "staff"
                /\ Event'[nextEventID].created_by = h.id]_vars

\* C20: each request fails independently: however many earlier requests
\* ended in 500, a request that waits for a pooled connection eventually
\* obtains one (and with it runs its handler to its one response).
C20_LaterRequestServed == Waiting ~> ~Waiting

\* ================================================= parents of the join rows
\* ------------------------------------------------ DELETE /events/:eventID
DeleteEventsOp == "DELETE /events"

DeleteEventNoForeignKey(e) ==
    {[ok |-> TRUE, Event |-> DeleteRow(Event, e),
      ParticipantEvent |-> ParticipantEvent, VolunteerEvent |-> VolunteerEvent]}

\* DELETE FROM Event WHERE eventID = ?  With a join row still referencing the
\* Event row the foreign key either refuses the DELETE (the query throws) or
\* removes the join rows with it (ON DELETE CASCADE), as the key was declared.
DeleteEventOutcomes(e) ==
    IF EventRows(ParticipantEvent, e) # {} \/ EventRows(VolunteerEvent, e) # {}
    THEN {[ok |-> FALSE, Event |-> Event,
           ParticipantEvent |-> ParticipantEvent, VolunteerEvent |-> VolunteerEvent],
          [ok |-> TRUE, Event |-> DeleteRow(Event, e),
           ParticipantEvent |-> WithoutRows(ParticipantEvent, EventRows(ParticipantEvent, e)),
           VolunteerEvent |-> WithoutRows(VolunteerEvent, EventRows(VolunteerEvent, e))]}
    ELSE {[ok |-> TRUE, Event |-> DeleteRow(Event, e),
           ParticipantEvent |-> ParticipantEvent, VolunteerEvent |-> VolunteerEvent]}

\* One round trip (the DELETE), then 200 'Event deleted'; a throwing query
\* lands in catch: 500.  No token is asked for.
DeleteEvents(e) ==
    /\ \E out \in DeleteEventOutcomes(e) :
          /\ Event' = out.Event
          /\ ParticipantEvent' = out.ParticipantEvent
          /\ VolunteerEvent' = out.VolunteerEvent
          /\ sent' = IF out.ok THEN Resp(DeleteEventsOp, 200, "")
                     ELSE Resp(DeleteEventsOp, 500, "StorageFailure")
    /\ UNCHANGED <<build, User, nextEventID, inflight>>
    /\ UNCHANGED otpVars

\* Registrations, deletions of events and deletions of accounts at the same
\* time: the store holds a staff account, a participant account and one event.
InitParents ==
    /\ build \in Builds
    /\ User = SeedUsers
    /\ Staff = SeedStaff
    /\ Volunteers = <<>>
    /\ Participant = (2 :> ParticipantRow(1, 1))
    /\ nextUserID = Cardinality(DOMAIN SeedUsers) + 1
    /\ Event = (1 :> EventRow(MaxCap, MaxCap, 1, StaffUser))
    /\ nextEventID = 2
    /\ ParticipantEvent = EmptyJoin
    /\ VolunteerEvent = EmptyJoin
    /\ inflight = EmptyBag
    /\ sent = NoResp
    /\ otpStore = EmptyOtpStore
    /\ now = 0
    /\ issued = [p \in Phones |-> 0]
    /\ nextSerial = 1
    /\ logins = [s \in Serials |-> 0]
    /\ leaked = 0

NextParents ==
    \/ \E r \in Registrants, e \in EventIDs : ParticipantEventsBegin(MaxInFlight, r, e)
    \/ \E h \in Suspended : ParticipantEventsExisting(h)
    \/ \E h \in Suspended : ParticipantEventsInsert(h)
    \/ \E r \in Registrants, e \in EventIDs : VolunteerEventsBegin(MaxInFlight, r, e)
    \/ \E h \in Suspended : VolunteerEventsExisting(h)
    \/ \E h \in Suspended : VolunteerEventsInsert(h)
    \/ \E e \in EventIDs : DeleteEvents(e)
    \/ \E u \in UserIDs : DeleteUsersBegin(MaxInFlight, Bearer(u), u)
    \/ \E h \in Suspended : DeleteUsersVolunteers(h)
    \/ \E h \in Suspended : DeleteUsersParticipant(h)
    \/ \E h \in Suspended : DeleteUsersUser(h)
    \/ \E u \in UserIDs : DeleteUsers001(u)

SpecParents == InitParents /\ [][NextParents]_vars

DeleteParticipantsOp == "DELETE /participants"

DeleteParticipantAndUser(userID) ==
    [Participant |-> DeleteRow(Participant, userID), User |-> DeleteRow(User, userID)]

\* DELETE FROM Participant WHERE userID = ?: the one statement of the handler
DeleteParticipantRow(userID) ==
    [Participant |-> DeleteRow(Participant, userID), User |-> User]

\* One round trip (the DELETE), then 200 'Participant deleted'.  No token is
\* asked for.
DeleteParticipants(userID) ==
    /\ LET out == DeleteParticipantRow(userID)
       IN  /\ Participant' = out.Participant
           /\ User' = out.User
    /\ sent' = Resp(DeleteParticipantsOp, 200, "")
    /\ UNCHANGED <<build, Event, nextEventID, ParticipantEvent, VolunteerEvent, inflight>>
    /\ UNCHANGED <<nextUserID, otpStore, now, issued, nextSerial, logins,
                   Staff, Volunteers, leaked>>

\* Participant rows deleted by the administration and accounts deleted by
\* their owners, while participants register for the event, one registration
\* at a time.
NextAdmin ==
    \/ \E r \in Registrants, e \in EventIDs : ParticipantEventsBegin(1, r, e)
    \/ \E h \in Suspended : ParticipantEventsExisting(h)
    \/ \E h \in Suspended : ParticipantEventsInsert(h)
    \/ \E u \in UserIDs : DeleteParticipants(u)
    \/ \E u \in UserIDs :
          /\ \A h \in Suspended : h.op # DeleteUsersOp
          /\ DeleteUsersBegin(MaxInFlight, Bearer(u), u)
    \/ \E h \in Suspended : DeleteUsersVolunteers(h)
    \/ \E h \in Suspended : DeleteUsersParticipant(h)
    \/ \E h \in Suspended : DeleteUsersUser(h)
    \/ \E u \in UserIDs : DeleteUsers001(u)

SpecAdmin == InitParents /\ [][NextAdmin]_vars

\* C22: DELETE /participants/{userID} is answered 200, leaves no Participant
\* row with that userID and every other Participant row, the User table (the
\* row with that userID included) and every other table as they were;
\* DELETE /users/{userID} of src/server1.js removes the Staff, the Volunteers
\* and the Participant row of the account in that order and the User row
\* last, when no role row of the account is left.
C22_ParticipantDeleteKeepsUser ==
    [][/\ \A u \in UserIDs :
            DeleteParticipants(u)
            => /\ sent' = Resp(DeleteParticipantsOp, 200, "")
               /\ u \notin DOMAIN Participant'
               /\ DOMAIN Participant' = DOMAIN Participant \ {u}
               /\ \A v \in DOMAIN Participant' : Participant'[v] = Participant[v]
               /\ User' = User
               /\ UNCHANGED <<Staff, Volunteers, Event, ParticipantEvent, VolunteerEvent>>
       /\ \A u \in UserIDs :
            (DeleteUsersBegin(MaxInFlight, Bearer(u), u) /\ inflight' # inflight)
            => u \notin DOMAIN Staff' /\ User' = User
       /\ \A h \in Suspended :
            /\ DeleteUsersVolunteers(h)
               => h.id \notin DOMAIN Staff' \cup DOMAIN Volunteers' /\ User' = User
            /\ DeleteUsersParticipant(h)
               => /\ h.id \notin DOMAIN Staff' \cup DOMAIN Volunteers' \cup DOMAIN Participant'
                  /\ User' = User
            /\ DeleteUsersUser(h)
               => /\ h.id \notin DOMAIN Staff \cup DOMAIN Volunteers \cup DOMAIN Participant
                  /\ sent'.status = 200 => h.id \notin DOMAIN User']_vars

\* The Participant row of an account was deleted, its User row is still there
\* and so is a registration of the account.
C22_Witness ==
    /\ sent = Resp(DeleteParticipantsOp, 200, "")
    /\ \E u \in DOMAIN User :
          /\ User[u].role = "participant"
          /\ u \notin DOMAIN Participant
          /\ \E e \in DOMAIN Event : ParticipantEvent[<<u, e>>] = 1

\* ------------------------------------- PUT /users/:userID of src/server1.js
\* phoneNumber, birthdate of the LEFT JOIN: NULL (0) without a Participant row
JoinedParticipant(userID) ==
    IF userID \in DOMAIN Participant THEN Participant[userID] ELSE ParticipantRow(0, 0)

\* req.user.userID !== parseInt(req.params.userID)
OwnAccountCheck(auth, userID) ==
    IF auth.userID # userID THEN "You can only update your own profile" ELSE "pass"

\* verifyToken, the own-profile check and the SELECT of the user.
PutUsersBegin(limit, auth, userID, fullName, phoneNumber, birthdate) ==
    /\ build = "server1"
    /\ CanAccept(limit)
    /\ LET v == verifyToken(auth)
           own == OwnAccountCheck(auth, userID)
           users == {u \in DOMAIN User : u = userID}
       IN  IF v # "next"
           THEN /\ sent' = Resp(PutUsersOp, 401, v)
                /\ UNCHANGED inflight
           ELSE IF own # "pass"
           THEN /\ sent' = Resp(PutUsersOp, 403, own)
                /\ UNCHANGED inflight
           ELSE IF users = {}
           THEN /\ sent' = Resp(PutUsersOp, 404, "User not found")
                /\ UNCHANGED inflight
           ELSE LET user == User[FirstOf(users)]
                    p == JoinedParticipant(userID)
                IN  /\ inflight' = Suspend([Handler(PutUsersOp, userID, 0, "update_user") EXCEPT
                            !.fullName = OrDefault(fullName, user.fullName),
                            !.phone = OrDefault(phoneNumber, p.phoneNumber),
                            !.birthdate = OrDefault(birthdate, p.birthdate),
                            !.role = user.role])
                    /\ sent' = NoResp
    /\ UNCHANGED <<build, User, Participant, nextUserID, Staff, Volunteers>>
    /\ UNCHANGED eventVars

\* UPDATE User SET fullName = ?, image_url = ? WHERE userID = ?; a user who is
\* no participant is answered 200 now.
PutUsersUpdateUser(h) ==
    /\ h \in Suspended /\ h.op = PutUsersOp /\ h.pc = "update_user"
    /\ User' = [u \in DOMAIN User |->
                   IF u = h.id THEN [User[u] EXCEPT !.fullName = h.fullName] ELSE User[u]]
    /\ IF h.role = "participant"
       THEN /\ inflight' = Resume(h) (+) SetToBag({[h EXCEPT !.pc = "update_participant"]})
            /\ sent' = NoResp
       ELSE /\ inflight' = Resume(h)
            /\ sent' = Resp(PutUsersOp, 200, "")
    /\ UNCHANGED <<build, Participant, nextUserID, Staff, Volunteers>>
    /\ UNCHANGED eventVars

\* UPDATE Participant SET phoneNumber = ?, birthdate = ?, full_name = ? WHERE
\* userID = ?, then 200 'User updated'.
PutUsersUpdateParticipant(h) ==
    /\ h \in Suspended /\ h.op = PutUsersOp /\ h.pc = "update_participant"
    /\ Participant' = [u \in DOMAIN Participant |->
                          IF u = h.id THEN ParticipantRow(h.phone, h.birthdate)
                          ELSE Participant[u]]
    /\ inflight' = Resume(h)
    /\ sent' = Resp(PutUsersOp, 200, "")
    /\ UNCHANGED <<build, User, nextUserID, Staff, Volunteers>>
    /\ UNCHANGED eventVars

\* Updates and deletions of accounts on either router, by the holders of the
\* tokens of the seeded accounts, one request at a time.
NextOwn ==
    \/ \E auth \in SignedTokens, u \in DOMAIN SeedUsers, n \in 0..MaxNames, p \in PhoneInputs :
          PutUsersBegin(1, auth, u, n, p, 0)
    \/ \E h \in Suspended : PutUsersUpdateUser(h)
    \/ \E h \in Suspended : PutUsersUpdateParticipant(h)
    \/ \E u \in DOMAIN SeedUsers, n \in Names, role \in Roles :
          CanAccept(1) /\ PutUsers001(u, n, role)
    \/ \E auth \in SignedTokens, u \in DOMAIN SeedUsers : DeleteUsersBegin(1, auth, u)
    \/ \E h \in Suspended : DeleteUsersVolunteers(h)
    \/ \E h \in Suspended : DeleteUsersParticipant(h)
    \/ \E h \in Suspended : DeleteUsersUser(h)
    \/ \E u \in DOMAIN SeedUsers : CanAccept(1) /\ DeleteUsers001(u)

SpecOwn == InitParents /\ [][NextOwn]_vars

\* C23: a PUT /users/{userID} or DELETE /users/{userID} request that carries
\* a valid token whose userID is not the userID of the path is answered 403
\* and leaves the User, Staff, Volunteers and Participant tables unchanged,
\* on either router.
C23_OnlyOwnAccount ==
    [][\A auth \in SignedTokens, u \in DOMAIN SeedUsers :
         auth.userID # u
         => LET Refused(op) ==
                    /\ sent'.op = op /\ sent'.status = 403
                    /\ inflight' = inflight
                    /\ UNCHANGED <<User, Staff, Volunteers, Participant>>
            IN  /\ \A n \in 0..MaxNames, p \in PhoneInputs :
                     PutUsersBegin(1, auth, u, n, p, 0) => Refused(PutUsersOp)
                /\ \A n \in Names, role \in Roles :
                     (CanAccept(1) /\ PutUsers001(u, n, role)) => Refused(PutUsersOp)
                /\ DeleteUsersBegin(1, auth, u) => Refused(DeleteUsersOp)
                /\ (CanAccept(1) /\ DeleteUsers001(u)) => Refused(DeleteUsersOp)]_vars

\* The router of src/unnamed/part_001 with one request at a time.
SpecSeq001 == Init001 /\ [][NextSeq]_vars

\* C24: the admission checks of src/unnamed/part_001 run in the order event
\* not found, event full, already registered, and the first that fails
\* answers: a request for a missing event is answered 404 'Event not found';
\* one for an event at its limit 400 'Event is full', also when the registrant
\* already holds a row for it; only a request that is past both is answered
\* 400 'Already registered' when the registrant holds a row; for both kinds.
C24_ChecksInOrder ==
    [][/\ \A r \in Registrants, e \in EventIDs :
            /\ ParticipantEventsBegin(1, r, e)
               => IF e \notin DOMAIN Event
                  THEN sent' = Resp(PostParticipantEvents, 404, "Event not found")
                  ELSE IF CountRows(ParticipantEvent, e) >= Event[e].max_participants
                  THEN sent' = Resp(PostParticipantEvents, 400, "Event is full")
                  ELSE sent' = NoResp /\ inflight' # inflight
            /\ VolunteerEventsBegin(1, r, e)
               => IF e \notin DOMAIN Event
                  THEN sent' = Resp(PostVolunteerEvents, 404, "Event not found")
                  ELSE IF CountRows(VolunteerEvent, e) >= Event[e].max_volunteers
                  THEN sent' = Resp(PostVolunteerEvents, 400, "Event is full")
                  ELSE sent' = NoResp /\ inflight' # inflight
       /\ \A h \in Suspended :
            /\ ParticipantEventsExisting(h)
               => (sent' = Resp(PostParticipantEvents, 400, "Already registered"))
                      = (ParticipantEvent[<<h.id, h.eventID>>] >= 1)
            /\ VolunteerEventsExisting(h)
               => (sent' = Resp(PostVolunteerEvents, 400, "Already registered"))
                      = (VolunteerEvent[<<h.id, h.eventID>>] >= 1)
       /\ (sent'.error = "Already registered" /\ sent'.op = PostVolunteerEvents)
          => \E h \in Suspended :
                /\ h.pc = "existing"
                /\ CountRows(VolunteerEvent, h.eventID) < Event[h.eventID].max_volunteers]_vars

\* A volunteer registration for an event at its limit was answered 'Event is
\* full' while every volunteer with an account holds a row for the event.
C24_Witness ==
    /\ sent = Resp(PostVolunteerEvents, 400, "Event is full")
    /\ \E e \in DOMAIN Event :
          /\ Event[e].max_volunteers >= 1
          /\ CountRows(VolunteerEvent, e) = Event[e].max_volunteers
          /\ \A r \in Registrants \cap DOMAIN User : VolunteerEvent[<<r, e>>] = 1

\* C25: a registration answered 201 has inserted one row, for the pair of the
\* request, into the join table of its kind, and has left every other row of
\* that table, the other join table and the Event, User and role tables as
\* they were; a request past both checks for an existing event and account
\* is answered 201; every other step of a registration (a check that passes
\* or rejects, a refused INSERT) changes no table.
C25_RegistrationFrame ==
    [][/\ \A r \in Registrants, e \in EventIDs :
            /\ ParticipantEventsBegin(1, r, e) => Tables' = Tables
            /\ (build = "part_001" /\ VolunteerEventsBegin(1, r, e)) => Tables' = Tables
       /\ \A h \in Suspended :
            /\ ParticipantEventsExisting(h) => Tables' = Tables
            /\ VolunteerEventsExisting(h) => Tables' = Tables
            /\ ParticipantEventsInsert(h)
               => /\ IF sent'.status = 201
                     THEN /\ ParticipantEvent[<<h.id, h.eventID>>] = 0
                          /\ ParticipantEvent'[<<h.id, h.eventID>>] = 1
                          /\ \A p \in Pairs \ {<<h.id, h.eventID>>} :
                                ParticipantEvent'[p] = ParticipantEvent[p]
                          /\ UNCHANGED <<VolunteerEvent, Event, User,
                                         Staff, Volunteers, Participant>>
                     ELSE Tables' = Tables
                  /\ (/\ ParticipantEvent[<<h.id, h.eventID>>] = 0
                      /\ h.eventID \in DOMAIN Event /\ h.id \in DOMAIN User)
                     => sent'.status = 201
            /\ VolunteerEventsInsert(h)
               => /\ IF sent'.status = 201
                     THEN /\ VolunteerEvent[<<h.id, h.eventID>>] = 0
                          /\ VolunteerEvent'[<<h.id, h.eventID>>] = 1
                          /\ \A p \in Pairs \ {<<h.id, h.eventID>>} :
                                VolunteerEvent'[p] = VolunteerEvent[p]
                          /\ UNCHANGED <<ParticipantEvent, Event, User,
                                         Staff, Volunteers, Participant>>
                     ELSE Tables' = Tables
                  /\ (/\ VolunteerEvent[<<h.id, h.eventID>>] = 0
                      /\ h.eventID \in DOMAIN Event /\ h.id \in DOMAIN User)
                     => sent'.status = 201]_vars

\* A volunteer was registered for an event that holds a participant's row.
C25_Witness ==
    /\ sent = Resp(PostVolunteerEvents, 201, "")
    /\ \E e \in DOMAIN Event :
          /\ CountRows(VolunteerEvent, e) = 1
          /\ CountRows(ParticipantEvent, e) = 1

\* C26: a POST /login-otp request for a phone is answered with a token only
\* if a check-or-create for that phone completed earlier (a code was issued
\* for it), no token was issued on that code before, and, where the router
\* keeps a store of codes, the entry of the phone is present and not expired;
\* the token's userID is the user id the code was issued for.
C26_CodeBoundToPhone ==
    [][\A h \in Suspended :
         (LoginOtpQuery(h) /\ sent'.token # NoToken)
         => /\ issued[h.phone] # 0
            /\ logins[issued[h.phone]] = 0
            /\ build = "part_001"
               => /\ otpStore[h.phone] # NoOtp
                  /\ now <= otpStore[h.phone].expiresAt
                  /\ sent'.token.userID = otpStore[h.phone].userId]_vars

\* C27: no step of any route changes the role of a User row that exists
\* before and after the step.
C27_RoleNeverChanges ==
    [][\A u \in DOMAIN User \cap DOMAIN User' : User'[u].role = User[u].role]_vars

\* C28: every handler releases the pooled connection it acquired on every
\* path to its response: whenever no request is in flight, no connection is
\* checked out.
C28_ConnectionsReleased ==
    inflight = EmptyBag => CheckedOut = 0

\* C29: an update of an event keeps the capacity invariant: after every
\* PUT /events/{eventID} the event holds at most its new max_participants
\* ParticipantEvent rows and at most its new max_volunteers VolunteerEvent
\* rows.
C29_UpdateKeepsCapacity ==
    [][\A e \in DOMAIN Event, lim \in LimitPairs, dt \in Datetimes :
         PutEvents(e, lim[1], lim[2], dt)
         => /\ CountRows(ParticipantEvent', e) <= Event'[e].max_participants
            /\ CountRows(VolunteerEvent', e) <= Event'[e].max_volunteers]_vars

====
